---- MODULE Spec2Model ----
(***************************************************************************)
(* A model of sri4node-attachments (src/js/sri4node-attachments.js): the   *)
(* upload and copy routes that stage files under temporary S3 keys, run    *)
(* the caller's runAfterUpload, check security and then rename the staged  *)
(* objects to their permanent keys or delete them.                         *)
(*                                                                         *)
(* Strings are sequences of tokens (a token is one character, or one       *)
(* opaque word such as a resource key), so that `${a}-${b}` is \o and       *)
(* split("/") is the sequence of path segments.  An optional value is      *)
(* undefined == <<>> or Some(v) == <<v>>.                                  *)
(***************************************************************************)
EXTENDS Integers, Sequences, FiniteSets, TLC

undefined == <<>>
Some(v) == <<v>>
IsDefined(o) == Len(o) > 0
Val(o) == o[1]

(* Array.prototype.indexOf, 1-based; 0 when absent (JavaScript: -1) *)
RECURSIVE IndexOfFrom(_, _, _)
IndexOfFrom(s, x, i) ==
    IF i > Len(s) THEN 0
    ELSE IF s[i] = x THEN i ELSE IndexOfFrom(s, x, i + 1)

indexOf(s, x) == IndexOfFrom(s, x, 1)

----------------------------------------------------------------------------
(* getSafeFilename: decodeURIComponent, then every character outside the  *)
(* safe set (letters, digits and - ! _ . * ' ( ) ) becomes an underscore;  *)
(* on URIError, retry with the first percent sign replaced by one.         *)

Letters ==
    {"a","b","c","d","e","f","g","h","i","j","k","l","m",
     "n","o","p","q","r","s","t","u","v","w","x","y","z",
     "A","B","C","D","E","F","G","H","I","J","K","L","M",
     "N","O","P","Q","R","S","T","U","V","W","X","Y","Z"}

Digits == {"0","1","2","3","4","5","6","7","8","9"}

SafeChars == Letters \cup Digits \cup {"-","!","_",".","*","'","(",")"}

HexDigits == <<"0","1","2","3","4","5","6","7","8","9","a","b","c","d","e","f">>

HexUpper == <<"0","1","2","3","4","5","6","7","8","9","A","B","C","D","E","F">>

IsHex(c) == indexOf(HexDigits, c) > 0 \/ indexOf(HexUpper, c) > 0

HexVal(c) ==
    IF indexOf(HexDigits, c) > 0 THEN indexOf(HexDigits, c) - 1
    ELSE indexOf(HexUpper, c) - 1

(* the printable ASCII characters, code 32 to 126 (the double quote and    *)
(* the backtick are written as the tokens dquote and backtick)             *)
Ascii ==
    <<" ","!","dquote","#","$","%","&","'","(",")","*","+",",","-",".","/",
      "0","1","2","3","4","5","6","7","8","9",":",";","<","=",">","?",
      "@","A","B","C","D","E","F","G","H","I","J","K","L","M","N","O",
      "P","Q","R","S","T","U","V","W","X","Y","Z","[","\\","]","^","_",
      "backtick","a","b","c","d","e","f","g","h","i","j","k","l","m","n","o",
      "p","q","r","s","t","u","v","w","x","y","z","{","|","}","~">>

(* String.fromCharCode for one decoded octet below 128; a control         *)
(* character is the token "ctl"                                            *)
Chr(byte) == IF byte >= 32 /\ byte <= 126 THEN Ascii[byte - 31] ELSE "ctl"

(* is s[i..i+2] an escape %XX *)
IsEscape(s, i) ==
    /\ i + 2 <= Len(s)
    /\ s[i] = "%"
    /\ IsHex(s[i + 1])
    /\ IsHex(s[i + 2])

Octet(s, i) == 16 * HexVal(s[i + 1]) + HexVal(s[i + 2])

(* the number of continuation octets a UTF-8 lead octet announces; 4 for  *)
(* an octet that cannot start a sequence                                   *)
Continuations(byte) ==
    IF byte < 128 THEN 0
    ELSE IF byte >= 194 /\ byte <= 223 THEN 1
    ELSE IF byte >= 224 /\ byte <= 239 THEN 2
    ELSE IF byte >= 240 /\ byte <= 244 THEN 3
    ELSE 4

IsContinuation(s, i) == IsEscape(s, i) /\ Octet(s, i) >= 128 /\ Octet(s, i) <= 191

(* decodeURIComponent from position i: <<"URIError">> when malformed,      *)
(* otherwise the decoded characters; a decoded character above 127 is the *)
(* token "U+"                                                              *)
RECURSIVE DecodeFrom(_, _)
DecodeFrom(s, i) ==
    IF i > Len(s) THEN <<>>
    ELSE IF s[i] # "%" THEN
        LET rest == DecodeFrom(s, i + 1)
        IN  IF rest = <<"URIError">> THEN rest ELSE <<s[i]>> \o rest
    ELSE IF ~IsEscape(s, i) THEN <<"URIError">>
    ELSE LET n == Continuations(Octet(s, i))
         IN  IF n = 4 THEN <<"URIError">>
             ELSE IF \E j \in 1..n : ~IsContinuation(s, i + 3 * j) THEN <<"URIError">>
             ELSE LET rest == DecodeFrom(s, i + 3 * (n + 1))
                      c == IF n = 0 THEN Chr(Octet(s, i)) ELSE "U+"
                  IN  IF rest = <<"URIError">> THEN rest ELSE <<c>> \o rest

decodeURIComponent(s) == DecodeFrom(s, 1)

(* a replace that lets the percent sign through *)
ReplaceUnsafe_KeepsPercent(s) ==
    [i \in 1..Len(s) |-> IF s[i] \in SafeChars \cup {"%"} THEN s[i] ELSE "_"]

(* the replace of every character outside the safe set by an underscore *)
ReplaceUnsafe(s) == [i \in 1..Len(s) |-> IF s[i] \in SafeChars THEN s[i] ELSE "_"]

(* the replace of a percent sign by an underscore: first occurrence only *)
ReplaceFirstPercent(s) ==
    LET i == indexOf(s, "%")
    IN  IF i = 0 THEN s ELSE [s EXCEPT ![i] = "_"]

RECURSIVE getSafeFilename(_)
getSafeFilename(filename) ==
    LET decodedFilename == decodeURIComponent(filename)
    IN  IF decodedFilename # <<"URIError">> THEN ReplaceUnsafe(decodedFilename)
        ELSE getSafeFilename(ReplaceFirstPercent(filename))

----------------------------------------------------------------------------
(* Bounds of the model *)

(* the requests handled in one behaviour *)
MaxRequests == 2

(* the file parts one multipart request carries *)
MaxFiles == 2

(* the descriptors of one manifest *)
MaxDescs == 2

(* the store calls and plugin calls that fail in one behaviour *)
MaxFaults == 1

Requests == 1..MaxRequests

----------------------------------------------------------------------------
(* The inputs: file names, attachment keys, hrefs, manifests *)

(* uuidv4: the n-th value drawn is the n-th of these *)
Uuids ==
    <<"u1","u2","u3","u4","u5","u6","u7","u8","u9","u10","u11","u12",
      "u13","u14","u15","u16","u17","u18","u19","u20","u21","u22","u23","u24">>

(* file names as the client sends them: the second one is not a safe name *)
RawNames == { <<"a">>, <<" ">> }

AttachmentKeys == { <<"k1">>, <<"k2">> }

(* "/widgets/w1" and "/widgets/w2" as split("/") gives them *)
HrefW1 == << <<>>, <<"widgets">>, <<"w1">> >>

HrefW2 == << <<>>, <<"widgets">>, <<"w2">> >>

(* the download href of the attachment a of w1 *)
FileHrefA == HrefW1 \o << <<"attachments">>, <<"a">> >>

UploadDesc(f, k) ==
    [file |-> Some(f), fileHref |-> undefined,
     attachment |-> Some([key |-> Some(k)]),
     resource |-> Some([href |-> Some(HrefW1), key |-> undefined]),
     ignoreNotFound |-> FALSE]

CopyDesc(k, ign) ==
    [file |-> undefined, fileHref |-> Some(FileHrefA),
     attachment |-> Some([key |-> Some(k)]),
     resource |-> Some([href |-> Some(HrefW2), key |-> undefined]),
     ignoreNotFound |-> ign]

NoAttachmentDesc == [UploadDesc(<<"a">>, <<"k1">>) EXCEPT !.attachment = undefined]

NoKeyDesc == [UploadDesc(<<"a">>, <<"k1">>) EXCEPT !.attachment = Some([key |-> undefined])]

NoResourceDesc == [UploadDesc(<<"a">>, <<"k1">>) EXCEPT !.resource = undefined]

NoFileDesc == [UploadDesc(<<"a">>, <<"k1">>) EXCEPT !.file = undefined]

Descs ==
    {UploadDesc(f, k) : f \in RawNames, k \in AttachmentKeys}
    \cup {CopyDesc(<<"k2">>, ign) : ign \in BOOLEAN}
    \cup {NoAttachmentDesc, NoKeyDesc, NoResourceDesc, NoFileDesc}

RECURSIVE SeqsUpTo(_, _)
SeqsUpTo(S, n) ==
    IF n = 0 THEN {<<>>}
    ELSE LET shorter == SeqsUpTo(S, n - 1)
         IN  shorter \cup {Append(q, x) : q \in shorter, x \in S}

(* the manifests: the parsed value of the body field (a single object is a *)
(* list of one)                                                            *)
Bodies == SeqsUpTo(Descs, MaxDescs)

(* fullPluginConfig (is there a security plugin) and the argument of the  *)
(* route factories (is there a getResourceForCopy): the configuration with *)
(* every feature on and the loop of promotions, and each option changed in *)
(* turn                                                                    *)
BaseConfig ==
    [checkFileExistence |-> TRUE,
     handleMultipleUploadsTogether |-> FALSE,
     uploadInSequence |-> TRUE,
     securityPlugin |-> TRUE,
     getResourceForCopy |-> TRUE]

Configs ==
    {BaseConfig,
     [BaseConfig EXCEPT !.checkFileExistence = FALSE],
     [BaseConfig EXCEPT !.uploadInSequence = FALSE],
     [BaseConfig EXCEPT !.handleMultipleUploadsTogether = TRUE],
     [BaseConfig EXCEPT !.handleMultipleUploadsTogether = TRUE, !.uploadInSequence = FALSE],
     [BaseConfig EXCEPT !.securityPlugin = FALSE],
     [BaseConfig EXCEPT !.getResourceForCopy = FALSE]}

----------------------------------------------------------------------------
(* The state *)

VARIABLES
    store,      \* the bucket: object key |-> [Body, Metadata]
    uuid,       \* the number of uuidv4 values drawn so far
    faults,     \* the number of failed store calls so far
    cfg,        \* fullPluginConfig
    req,        \* the locals of each request's handler, and where it stands
    store0      \* history: the bucket before the first request

vars == <<store, uuid, faults, cfg, req, store0>>

NoOutcome == [kind |-> "pending", status |-> 0, code |-> "", response |-> <<>>]

InitReq ==
    [pc |-> "idle",
     entry |-> "none",
     after |-> {},
     attachmentsRcvd |-> <<>>,
     tmpUploads |-> <<>>,
     fieldsRcvd |-> undefined,
     body |-> <<>>,
     toCopy |-> <<>>,
     results |-> <<>>,
     copies |-> <<>>,
     exIdx |-> 0,
     promo |-> <<>>,
     failed |-> <<>>,
     securityError |-> FALSE,
     renames |-> <<>>,
     outcome |-> NoOutcome,
     \* the download and delete routes: sriRequest.params, the isRetry
     \* argument of handleFileDownload
     params |-> [key |-> <<>>, filename |-> <<>>, attachmentKey |-> <<>>],
     isRetry |-> FALSE,
     \* history, read by no handler: the keys this request wrote, the
     \* promotions in the order they started, what the existence check saw at
     \* a permanent key, and the identity written at a permanent key
     writes |-> {},
     promoted |-> <<>>,
     seen |-> {},
     wrote |-> {},
     \* history: the keys the download has probed with a head, in order
     probes |-> <<>>,
     \* history: the transport has aborted the request
     aborted |-> FALSE]

(* the bucket before the request: empty, or holding the attachment a of   *)
(* w1 as an earlier upload with the key k1 left it                         *)
KeyW1A == <<"w1">> \o <<"-">> \o <<"a">>

EarlierUpload ==
    [k \in {KeyW1A} |->
        [Body |-> <<"bytes", "u0">>, Metadata |-> [attachmentkey |-> Some(<<"k1">>)]]]

InitStores == {<< >>, EarlierUpload}

Init ==
    /\ store \in InitStores
    /\ store0 = store
    /\ uuid = 0
    /\ faults = 0
    /\ cfg \in Configs
    /\ req = [b \in Requests |-> InitReq]

----------------------------------------------------------------------------
(* The blob store *)

Exists(key) == key \in DOMAIN store

(* the bucket after PutObject or CopyObject wrote obj at key *)
PutAt(s, key, obj) == [k \in DOMAIN s \cup {key} |-> IF k = key THEN obj ELSE s[k]]

(* the bucket after DeleteObjects of the keys *)
deleteFromS3(s, filenames) == [k \in DOMAIN s \ filenames |-> s[k]]

(* a head that answers a length of zero *)
headFromS3_NoLength(s, s3filename) ==
    [ETag |-> <<"etag">> \o s[s3filename].Body,
     ContentLength |-> 0,
     Metadata |-> s[s3filename].Metadata]

(* what HeadObject answers for an object *)
headFromS3(s, s3filename) ==
    [ETag |-> <<"etag">> \o s[s3filename].Body,
     ContentLength |-> Len(s[s3filename].Body),
     Metadata |-> s[s3filename].Metadata]

(* the object PutObject stores: the uploaded bytes, no user metadata *)
handleFileUpload(fileStream) == [Body |-> fileStream, Metadata |-> [attachmentkey |-> undefined]]

(* the object CopyObject stores: MetadataDirective REPLACE *)
copyFile(s, sourceFileName, attachmentKey) ==
    [Body |-> s[sourceFileName].Body, Metadata |-> [attachmentkey |-> Some(attachmentKey)]]

getTmpFilename(n, filename) == <<Uuids[n]>> \o <<"-">> \o filename \o <<".tmp">>

IsTmpKey(key) == Len(key) > 0 /\ key[Len(key)] = ".tmp"

(* the bytes of the file part whose temporary name draws the n-th uuid *)
BytesOf(n) == <<"bytes", Uuids[n]>>

Segment(spl, i) == IF i \in 1..Len(spl) THEN spl[i] ELSE <<"undefined">>

(* a variant of getS3FileName that ends the permanent key with the        *)
(* attachment key instead of the file name                                 *)
getS3FileName_ByAttachmentKey(file) ==
    Val(Val(file.resource).key) \o <<"-">> \o Val(Val(file.attachment).key)

(* getS3FileName(sriRequest, file): the permanent key of a descriptor *)
getS3FileName(file) == Val(Val(file.resource).key) \o <<"-">> \o Val(file.file).filename

(* getS3FileName(undefined, undefined, undefined, href): the key of a copy source *)
getS3FileNameOfHref(href) ==
    LET attInd == indexOf(href, <<"attachments">>)
    IN  Segment(href, attInd - 1) \o <<"-">> \o Segment(href, attInd + 1)

(* the segments joined by "/" *)
RECURSIVE Join(_)
Join(segs) ==
    IF segs = <<>> THEN <<>>
    ELSE IF Len(segs) = 1 THEN segs[1]
    ELSE segs[1] \o <<"/">> \o Join(Tail(segs))

(* href.split("/attachments/").pop(): what follows the last attachments    *)
(* segment that stands between two others                                  *)
FilenameOfHref(href) ==
    LET at == {p \in 2..(Len(href) - 1) : href[p] = <<"attachments">>}
    IN  IF at = {} THEN Join(href)
        ELSE LET p == CHOOSE q \in at : \A o \in at : o <= q
             IN  Join(SubSeq(href, p + 1, Len(href)))

----------------------------------------------------------------------------
(* Pure parts of the handlers *)

(* a JavaScript string that is neither undefined nor empty *)
Truthy(o) == IsDefined(o) /\ Val(o) # <<>>

(* a truthy href: as split it is not the one empty segment *)
TruthyHref(o) == IsDefined(o) /\ Val(o) # << <<>> >>

(* a variant of validateAndMessWithRequestData that looks at the resources *)
(* before it looks at the attachment keys                                  *)
validateAndMessWithRequestData_ResourceFirst(bodyJson) ==
    IF \E i \in 1..Len(bodyJson) : ~IsDefined(bodyJson[i].attachment)
        THEN "missing.json.body.attachment"
    ELSE IF \E i \in 1..Len(bodyJson) :
                \/ ~IsDefined(bodyJson[i].resource)
                \/ ~TruthyHref(Val(bodyJson[i].resource).href)
        THEN "missing.json.body.resource"
    ELSE IF \E i \in 1..Len(bodyJson) : ~Truthy(Val(bodyJson[i].attachment).key)
        THEN "missing.json.attachment.key"
    ELSE ""

(* validateAndMessWithRequestData: the code of the error it throws, or "" *)
validateAndMessWithRequestData(bodyJson) ==
    IF \E i \in 1..Len(bodyJson) : ~IsDefined(bodyJson[i].attachment)
        THEN "missing.json.body.attachment"
    ELSE IF \E i \in 1..Len(bodyJson) : ~Truthy(Val(bodyJson[i].attachment).key)
        THEN "missing.json.attachment.key"
    ELSE IF \E i \in 1..Len(bodyJson) :
                \/ ~IsDefined(bodyJson[i].resource)
                \/ ~TruthyHref(Val(bodyJson[i].resource).href)
        THEN "missing.json.body.resource"
    ELSE ""

(* ... and what it leaves in bodyJson: resource.key is the last chunk of    *)
(* resource.href                                                           *)
WithResourceKey(bodyJson) ==
    [i \in 1..Len(bodyJson) |->
        LET chuncks == Val(Val(bodyJson[i].resource).href)
        IN  [bodyJson[i] EXCEPT
                !.resource = Some([href |-> Some(chuncks),
                                   key |-> Some(chuncks[Len(chuncks)])])]]

(* newBodyArray: the file name of every descriptor made safe *)
NewBodyArray(bodyArray) ==
    [i \in 1..Len(bodyArray) |->
        IF Truthy(bodyArray[i].file)
        THEN [bodyArray[i] EXCEPT !.file = Some(getSafeFilename(Val(bodyArray[i].file)))]
        ELSE bodyArray[i]]

(* a variant of checkBodyJsonForFile that accepts every received file *)
checkBodyJsonForFile_AcceptsAll(file, bodyJson) ==
    TRUE

(* checkBodyJsonForFile: does some descriptor name the received file *)
checkBodyJsonForFile(file, bodyJson) ==
    \E i \in 1..Len(bodyJson) : bodyJson[i].file = Some(file.filename)

(* the indexes of the descriptors that have a fileHref *)
RECURSIVE ToCopyFrom(_, _)
ToCopyFrom(bodyJson, i) ==
    IF i > Len(bodyJson) THEN <<>>
    ELSE (IF TruthyHref(bodyJson[i].fileHref) THEN <<i>> ELSE <<>>)
         \o ToCopyFrom(bodyJson, i + 1)

(* the indexes of the descriptors whose file is not undefined *)
RECURSIVE WithFileFrom(_, _)
WithFileFrom(bodyJson, i) ==
    IF i > Len(bodyJson) THEN <<>>
    ELSE (IF IsDefined(bodyJson[i].file) THEN <<i>> ELSE <<>>)
         \o WithFileFrom(bodyJson, i + 1)

(* the first element of attachmentsRcvd with that filename: its index or 0 *)
RECURSIVE FindFile(_, _, _)
FindFile(attachmentsRcvd, filename, i) ==
    IF i > Len(attachmentsRcvd) THEN 0
    ELSE IF attachmentsRcvd[i].filename = filename THEN i
    ELSE FindFile(attachmentsRcvd, filename, i + 1)

(* does checkFileForBodyJson throw missing.file *)
MissingFile(bodyJson, attachmentsRcvd) ==
    \E i \in 1..Len(bodyJson) :
        /\ IsDefined(bodyJson[i].file)
        /\ ~TruthyHref(bodyJson[i].fileHref)
        /\ FindFile(attachmentsRcvd, Val(bodyJson[i].file), 1) = 0

(* checkFileForBodyJson: att.file becomes the received file object *)
checkFileForBodyJson(bodyJson, attachmentsRcvd) ==
    [i \in 1..Len(bodyJson) |->
        IF IsDefined(bodyJson[i].file) /\ ~TruthyHref(bodyJson[i].fileHref)
        THEN [bodyJson[i] EXCEPT
                !.file = Some(attachmentsRcvd[FindFile(attachmentsRcvd, Val(bodyJson[i].file), 1)])]
        ELSE bodyJson[i]]

(* a variant of Response that lists the entries last descriptor first *)
Response_Reversed(bodyJson) ==
    [i \in 1..Len(bodyJson) |->
        LET file == bodyJson[Len(bodyJson) + 1 - i]
        IN  [status |-> 200,
             href |-> Val(Val(file.resource).href)
                        \o << <<"attachments">>, Val(Val(file.attachment).key) >>]]

(* the response of a successful batch *)
Response(bodyJson) ==
    [i \in 1..Len(bodyJson) |->
        [status |-> 200,
         href |-> Val(Val(bodyJson[i].resource).href)
                    \o << <<"attachments">>, Val(Val(bodyJson[i].attachment).key) >>]]

Throw(r, status, code) ==
    [r EXCEPT !.pc = "done",
              !.outcome = [kind |-> "error", status |-> status, code |-> code,
                           response |-> <<>>]]

Respond(r) ==
    [r EXCEPT !.pc = "done",
              !.outcome = [kind |-> "ok", status |-> 200, code |-> "",
                           response |-> Response(r.body)]]

----------------------------------------------------------------------------
(* The upload route: customRouteForUpload(...).streamingHandler            *)

Set(b, r) == req' = [req EXCEPT ![b] = r]

Responded(b) == req[b].pc = "done"

(* the requests that have their response *)
RespondedSet == {c \in Requests : Responded(c)}

(* a request that has not arrived yet; requests are numbered as they arrive *)
CanStart(b) ==
    /\ req[b].pc = "idle"
    /\ \A c \in Requests : c < b => req[c].pc # "idle"

(* a store call may fail while the budget of faults lasts *)
MayFail == faults < MaxFaults

AllSettled(tasks, settled) == \A i \in 1..Len(tasks) : tasks[i] \in settled

(* the request arrives: the locals are fresh, busBoy starts parsing *)
streamingHandler(b) ==
    /\ CanStart(b)
    /\ Set(b, [InitReq EXCEPT !.pc = "busBoy", !.entry = "upload", !.after = RespondedSet])
    /\ UNCHANGED <<store, uuid, faults, cfg, store0>>

(* busBoy.on("file"): the file object, its temporary name, its upload *)
BusBoyFile(b, filename) ==
    LET r == req[b]
        safeFilename == getSafeFilename(filename)
        fileObj == [filename |-> safeFilename,
                    originalFilename |-> filename,
                    tmpFileName |-> getTmpFilename(uuid + 1, safeFilename),
                    file |-> BytesOf(uuid + 1),
                    hash |-> undefined,
                    size |-> undefined]
    IN  /\ r.pc = "busBoy"
        /\ ~IsDefined(r.fieldsRcvd)
        /\ Len(r.attachmentsRcvd) < MaxFiles
        /\ uuid < Len(Uuids)
        /\ uuid' = uuid + 1
        /\ Set(b, [r EXCEPT !.attachmentsRcvd = Append(@, fileObj),
                            !.tmpUploads = Append(@, "put")])
        /\ UNCHANGED <<store, faults, cfg, store0>>

(* busBoy.on("field"): the body field.  Nothing reads fieldsRcvd before  *)
(* busBoy has closed and the uploads have settled, so the arrival of the   *)
(* field commutes with the file events and the upload steps: it is taken   *)
(* as the last part of the request, once the uploads have settled          *)
BusBoyField(b, val) ==
    LET r == req[b]
    IN  /\ r.pc = "busBoy"
        /\ ~IsDefined(r.fieldsRcvd)
        /\ AllSettled(r.tmpUploads, {"settled"})
        /\ Set(b, [r EXCEPT !.fieldsRcvd = Some(val)])
        /\ UNCHANGED <<store, uuid, faults, cfg, store0>>

(* busBoy closes: the handler goes on to await the uploads *)
BusBoyClose(b) ==
    LET r == req[b]
    IN  /\ r.pc = "busBoy"
        /\ Set(b, [r EXCEPT !.pc = "tmpUploads"])
        /\ UNCHANGED <<store, uuid, faults, cfg, store0>>

(* uploadTmpFile, the PutObject: stored, or rejected and pushed on failed *)
UploadTmpFilePut(b, i) ==
    LET r == req[b]
        f == r.attachmentsRcvd[i]
    IN  /\ i \in 1..Len(r.tmpUploads)
        /\ r.tmpUploads[i] = "put"
        /\ \/ /\ store' = PutAt(store, f.tmpFileName, handleFileUpload(f.file))
              /\ Set(b, [r EXCEPT !.tmpUploads[i] = "meta",
                                  !.writes = @ \cup {f.tmpFileName}])
              /\ UNCHANGED faults
           \/ /\ MayFail
              /\ faults' = faults + 1
              /\ Set(b, [r EXCEPT !.tmpUploads[i] = "settled",
                                  !.failed = Append(@, <<"put", i>>)])
              /\ UNCHANGED store
        /\ UNCHANGED <<uuid, cfg, store0>>

(* uploadTmpFile, the getFileMeta after it: hash and size from the store,  *)
(* or a null meta, whose TypeError is pushed on failed                     *)
UploadTmpFileMeta(b, i) ==
    LET r == req[b]
        f == r.attachmentsRcvd[i]
    IN  /\ i \in 1..Len(r.tmpUploads)
        /\ r.tmpUploads[i] = "meta"
        /\ \/ /\ Exists(f.tmpFileName)
              /\ LET meta == headFromS3(store, f.tmpFileName)
                 IN  Set(b, [r EXCEPT !.tmpUploads[i] = "settled",
                                      !.attachmentsRcvd[i].hash = Some(meta.ETag),
                                      !.attachmentsRcvd[i].size = Some(meta.ContentLength)])
              /\ UNCHANGED faults
           \/ /\ MayFail
              /\ faults' = faults + 1
              /\ Set(b, [r EXCEPT !.tmpUploads[i] = "settled",
                                  !.failed = Append(@, <<"meta", i>>)])
        /\ UNCHANGED <<store, uuid, cfg, store0>>

(* the code of the manifest error thrown before copyAttachments, or ""     *)
ManifestError(r) ==
    IF ~IsDefined(r.fieldsRcvd) THEN "missing.body"
    ELSE LET bodyArray == Val(r.fieldsRcvd)
             code == validateAndMessWithRequestData(bodyArray)
         IN  IF code # "" THEN code
             ELSE IF /\ r.entry = "upload"
                     /\ \E i \in 1..Len(r.attachmentsRcvd) :
                            ~checkBodyJsonForFile(r.attachmentsRcvd[i],
                                                  NewBodyArray(WithResourceKey(bodyArray)))
                  THEN "body.incomplete"
             ELSE ""

(* the working manifest: newBodyArray in the upload route, bodyJson in the *)
(* copy route                                                              *)
WorkingBody(r) ==
    IF r.entry = "upload" THEN NewBodyArray(WithResourceKey(Val(r.fieldsRcvd)))
    ELSE WithResourceKey(Val(r.fieldsRcvd))

(* copyAttachments up to its first await: every descriptor with a fileHref *)
(* gets a file object with a fresh temporary name                          *)
CopyPrelude(bodyJson, toCopy, n) ==
    [i \in 1..Len(bodyJson) |->
        LET j == indexOf(toCopy, i)
            filename == FilenameOfHref(Val(bodyJson[i].fileHref))
        IN  IF j = 0 THEN bodyJson[i]
            ELSE [bodyJson[i] EXCEPT
                    !.file = Some([filename |-> filename,
                                   originalFilename |-> filename,
                                   tmpFileName |-> getTmpFilename(n + j, filename),
                                   file |-> <<>>,
                                   hash |-> undefined,
                                   size |-> undefined])]]

(* from the parsed manifest to the first await: validation, the matching   *)
(* of received files, and the start of copyAttachments                     *)
Validated(r) ==
    LET code == ManifestError(r)
        bodyJson == WorkingBody(r)
        toCopy == ToCopyFrom(bodyJson, 1)
    IN  IF code # "" THEN Throw(r, 409, code)
        ELSE IF cfg.getResourceForCopy /\ toCopy # <<>>
        THEN [r EXCEPT !.pc = "copySecurity",
                       !.body = CopyPrelude(bodyJson, toCopy, uuid),
                       !.toCopy = toCopy]
        ELSE [r EXCEPT !.pc = "checkFileForBodyJson", !.body = bodyJson]

UuidsDrawn(r) ==
    IF ManifestError(r) = "" /\ cfg.getResourceForCopy
    THEN Len(ToCopyFrom(WorkingBody(r), 1))
    ELSE 0

(* await Promise.all(tmpUploads) is over: the manifest is read *)
Validate(b) ==
    LET r == req[b]
    IN  /\ r.pc = "tmpUploads"
        /\ AllSettled(r.tmpUploads, {"settled"})
        /\ uuid + UuidsDrawn(r) <= Len(Uuids)
        /\ uuid' = uuid + UuidsDrawn(r)
        /\ Set(b, Validated(r))
        /\ UNCHANGED <<store, faults, cfg, store0>>

(* The copy route: customRouteForUploadCopy(...).handler, from the request *)
(* body to the first await                                                 *)
handler(b, body) ==
    LET r == [InitReq EXCEPT !.entry = "copy", !.fieldsRcvd = body, !.after = RespondedSet]
    IN  /\ CanStart(b)
        /\ uuid + UuidsDrawn(r) <= Len(Uuids)
        /\ uuid' = uuid + UuidsDrawn(r)
        /\ Set(b, Validated(r))
        /\ UNCHANGED <<store, faults, cfg, store0>>

----------------------------------------------------------------------------
(* copyAttachments, from its first await on *)

(* a read check whose refusal is kept for the decision at the end *)
CopySecurity_Deferred(b) ==
    LET r == req[b]
        pending == [j \in 1..Len(r.toCopy) |-> [st |-> "pending", hash |-> <<>>, size |-> 0]]
    IN  /\ r.pc = "copySecurity"
        /\ \/ /\ ~cfg.securityPlugin
              /\ Set(b, Throw(r, 500, "TypeError"))
           \/ /\ cfg.securityPlugin
              /\ Set(b, [r EXCEPT !.pc = "copyMeta", !.results = pending])
           \/ /\ cfg.securityPlugin
              /\ Set(b, [r EXCEPT !.pc = "copyMeta", !.results = pending,
                                  !.securityError = TRUE])
        /\ UNCHANGED <<store, uuid, faults, cfg, store0>>

(* checkSecurityForResources(tx, sriRequest, "read", resources): the set    *)
(* of resources is not empty here; fullPluginConfig.security is an object,  *)
(* so its plugin is called: a TypeError when there is none                  *)
CopySecurity(b) ==
    LET r == req[b]
        pending == [j \in 1..Len(r.toCopy) |-> [st |-> "pending", hash |-> <<>>, size |-> 0]]
    IN  /\ r.pc = "copySecurity"
        /\ \/ /\ ~cfg.securityPlugin
              /\ Set(b, Throw(r, 500, "TypeError"))
           \/ /\ cfg.securityPlugin
              /\ Set(b, [r EXCEPT !.pc = "copyMeta", !.results = pending])
           \/ /\ cfg.securityPlugin
              /\ Set(b, Throw(r, 403, "security"))
        /\ UNCHANGED <<store, uuid, faults, cfg, store0>>

(* getFileMeta of one copy source: its meta, or null when the head fails *)
CopyGetFileMeta(b, j) ==
    LET r == req[b]
        source == getS3FileNameOfHref(Val(r.body[r.toCopy[j]].fileHref))
    IN  /\ r.pc = "copyMeta"
        /\ j \in 1..Len(r.results)
        /\ r.results[j].st = "pending"
        /\ \/ /\ Exists(source)
              /\ LET meta == headFromS3(store, source)
                 IN  Set(b, [r EXCEPT !.results[j] =
                        [st |-> "meta", hash |-> meta.ETag, size |-> meta.ContentLength]])
              /\ UNCHANGED faults
           \/ /\ ~Exists(source)
              /\ Set(b, [r EXCEPT !.results[j].st = "null"])
              /\ UNCHANGED faults
           \/ /\ Exists(source)
              /\ MayFail
              /\ faults' = faults + 1
              /\ Set(b, [r EXCEPT !.results[j].st = "null"])
        /\ UNCHANGED <<store, uuid, cfg, store0>>

(* the elements of toCopy whose source was found *)
RECURSIVE Surviving(_, _, _)
Surviving(toCopy, results, j) ==
    IF j > Len(toCopy) THEN <<>>
    ELSE (IF results[j].st = "meta" THEN <<toCopy[j]>> ELSE <<>>)
         \o Surviving(toCopy, results, j + 1)

(* hash and size of the found sources, set on the file objects *)
WithCopyMeta(bodyJson, toCopy, results) ==
    [i \in 1..Len(bodyJson) |->
        LET j == indexOf(toCopy, i)
        IN  IF j = 0 \/ results[j].st # "meta" THEN bodyJson[i]
            ELSE [bodyJson[i] EXCEPT
                    !.file = Some([Val(bodyJson[i].file) EXCEPT
                                      !.hash = Some(results[j].hash),
                                      !.size = Some(results[j].size)])]]

(* the descriptors copyAttachments returns: those without a fileHref and   *)
(* those whose fileHref is the fileHref of a surviving one                 *)
RECURSIVE Returned(_, _, _)
Returned(bodyJson, toCopy, i) ==
    IF i > Len(bodyJson) THEN <<>>
    ELSE (IF \/ ~TruthyHref(bodyJson[i].fileHref)
             \/ \E j \in 1..Len(toCopy) : bodyJson[toCopy[j]].fileHref = bodyJson[i].fileHref
          THEN <<bodyJson[i]>> ELSE <<>>)
         \o Returned(bodyJson, toCopy, i + 1)

(* copyAttachments returns: the upload route drops the returned list, the  *)
(* copy route goes on with it                                              *)
AfterCopy(r) ==
    [r EXCEPT !.pc = "checkFileForBodyJson",
              !.body = IF r.entry = "copy" THEN Returned(r.body, r.toCopy, 1) ELSE r.body,
              !.toCopy = <<>>,
              !.results = <<>>]

(* every meta is in: the filter throws for a source not found that is not  *)
(* to be ignored, otherwise the copies of the found ones start             *)
CopyFilter(b) ==
    LET r == req[b]
        toCopy == Surviving(r.toCopy, r.results, 1)
        withMeta == [r EXCEPT !.body = WithCopyMeta(r.body, r.toCopy, r.results),
                              !.toCopy = toCopy]
    IN  /\ r.pc = "copyMeta"
        /\ \A j \in 1..Len(r.results) : r.results[j].st # "pending"
        /\ IF \E j \in 1..Len(r.toCopy) :
                    r.results[j].st = "null" /\ ~r.body[r.toCopy[j]].ignoreNotFound
           THEN Set(b, Throw(r, 409, "file.to.copy.not.found"))
           ELSE IF toCopy = <<>>
           THEN Set(b, AfterCopy(withMeta))
           ELSE Set(b, [withMeta EXCEPT !.pc = "copyFiles",
                                        !.copies = [j \in 1..Len(toCopy) |->
                                                      [d |-> toCopy[j], st |-> "pending"]]])
        /\ UNCHANGED <<store, uuid, faults, cfg, store0>>

(* copyFile of one source to its temporary key, tagged with the attachment *)
(* key; the first rejection rejects copyAttachments, the other copies go on *)
CopyFile(b, j) ==
    LET r == req[b]
        d == r.copies[j].d
        att == r.body[d]
        source == getS3FileNameOfHref(Val(att.fileHref))
        tmpFileName == Val(att.file).tmpFileName
        done == [r EXCEPT !.copies[j].st = "done", !.writes = @ \cup {tmpFileName}]
        rejected == [r EXCEPT !.copies[j].st = "failed"]
    IN  /\ j \in 1..Len(r.copies)
        /\ r.copies[j].st = "pending"
        /\ \/ /\ Exists(source)
              /\ store' = PutAt(store, tmpFileName,
                                copyFile(store, source, Val(Val(att.attachment).key)))
              /\ Set(b, IF r.pc = "copyFiles"
                           /\ \A k \in 1..Len(done.copies) : done.copies[k].st = "done"
                        THEN AfterCopy(done) ELSE done)
              /\ UNCHANGED faults
           \/ /\ Exists(source) => MayFail
              /\ faults' = IF Exists(source) THEN faults + 1 ELSE faults
              /\ Set(b, IF r.pc = "copyFiles" THEN Throw(rejected, 500, "copy.failed")
                        ELSE rejected)
              /\ UNCHANGED store
        /\ UNCHANGED <<uuid, cfg, store0>>

----------------------------------------------------------------------------
(* Matching, the existence check, runAfterUpload, security *)

(* a variant of StartPromotions that does not read uploadInSequence: when  *)
(* the list is not handed to one call, every call starts at once           *)
StartPromotions_WithoutUploadInSequence(r) ==
    IF cfg.handleMultipleUploadsTogether
    THEN [r EXCEPT !.pc = "promote", !.promo = <<"running">>, !.promoted = <<0>>]
    ELSE IF r.body = <<>> THEN [r EXCEPT !.pc = "checkSecurity"]
    ELSE [r EXCEPT !.pc = "promote",
                   !.promo = [i \in 1..Len(r.body) |-> "running"],
                   !.promoted = [i \in 1..Len(r.body) |-> i]]

(* a variant of StartPromotions that never hands the whole list to one     *)
(* call                                                                    *)
StartPromotions_NeverGrouped(r) ==
    IF r.body = <<>> THEN [r EXCEPT !.pc = "checkSecurity"]
    ELSE IF cfg.uploadInSequence
    THEN [r EXCEPT !.pc = "promote",
                   !.promo = [i \in 1..Len(r.body) |-> IF i = 1 THEN "running" ELSE "idle"],
                   !.promoted = <<1>>]
    ELSE [r EXCEPT !.pc = "promote",
                   !.promo = [i \in 1..Len(r.body) |-> "running"],
                   !.promoted = [i \in 1..Len(r.body) |-> i]]

(* the promotions start: one call with the whole list, or the first call   *)
(* of the loop, or every call at once                                      *)
StartPromotions(r) ==
    IF cfg.handleMultipleUploadsTogether
    THEN [r EXCEPT !.pc = "promote", !.promo = <<"running">>, !.promoted = <<0>>]
    ELSE IF r.body = <<>> THEN [r EXCEPT !.pc = "checkSecurity"]
    ELSE IF cfg.uploadInSequence
    THEN [r EXCEPT !.pc = "promote",
                   !.promo = [i \in 1..Len(r.body) |-> IF i = 1 THEN "running" ELSE "idle"],
                   !.promoted = <<1>>]
    ELSE [r EXCEPT !.pc = "promote",
                   !.promo = [i \in 1..Len(r.body) |-> "running"],
                   !.promoted = [i \in 1..Len(r.body) |-> i]]

(* checkFileForBodyJson, then the existence check begins, or the promotions *)
CheckFileForBodyJson(b) ==
    LET r == req[b]
        matched == [r EXCEPT !.body = checkFileForBodyJson(r.body, r.attachmentsRcvd)]
    IN  /\ r.pc = "checkFileForBodyJson"
        /\ IF MissingFile(r.body, r.attachmentsRcvd)
           THEN Set(b, Throw(r, 409, "missing.file"))
           ELSE IF cfg.checkFileExistence /\ WithFileFrom(matched.body, 1) # <<>>
           THEN Set(b, [matched EXCEPT !.pc = "checkExistence", !.exIdx = 1])
           ELSE Set(b, StartPromotions(matched))
        /\ UNCHANGED <<store, uuid, faults, cfg, store0>>

(* a variant of Conflict that throws for the same attachment key instead   *)
(* of a different one                                                      *)
Conflict_SameKey(head, attachmentKey) ==
    /\ IsDefined(head)
    /\ Val(head).Metadata.attachmentkey = Some(attachmentKey)

(* a variant of Conflict that throws for any object at the permanent key *)
Conflict_AnyObject(head, attachmentKey) ==
    IsDefined(head)

(* does checkExistence throw for this head of the permanent key *)
Conflict(head, attachmentKey) ==
    /\ IsDefined(head)
    /\ Val(head).Metadata.attachmentkey # Some(attachmentKey)

(* checkExistence, one turn of its loop: the head of the permanent key of   *)
(* the next descriptor that has a file                                     *)
CheckExistence(b, failing) ==
    LET r == req[b]
        files == WithFileFrom(r.body, 1)
        fileWithJson == r.body[files[r.exIdx]]
        s3filename == getS3FileName(fileWithJson)
        head == IF Exists(s3filename) /\ ~failing
                THEN Some(headFromS3(store, s3filename)) ELSE undefined
        probed == IF IsDefined(head)
                  THEN [r EXCEPT !.seen = @ \cup {<<s3filename, Val(head).Metadata.attachmentkey>>}]
                  ELSE r
    IN  /\ r.pc = "checkExistence"
        /\ failing => Exists(s3filename) /\ MayFail
        /\ faults' = IF failing THEN faults + 1 ELSE faults
        /\ IF Conflict(head, Val(Val(fileWithJson.attachment).key))
           THEN Set(b, Throw(probed, 409, "file.already.exists"))
           ELSE IF r.exIdx < Len(files)
           THEN Set(b, [probed EXCEPT !.exIdx = @ + 1])
           ELSE Set(b, StartPromotions(probed))
        /\ UNCHANGED <<store, uuid, cfg, store0>>

(* a variant of NextInSequence in which a failed promotion ends the loop *)
NextInSequence_StopOnFailure(r, i) ==
    IF /\ ~cfg.handleMultipleUploadsTogether
       /\ cfg.uploadInSequence
       /\ i < Len(r.promo)
       /\ r.promo[i] = "ok"
    THEN [r EXCEPT !.promo[i + 1] = "running", !.promoted = Append(@, i + 1)]
    ELSE r

(* after a promotion of the loop has settled, the next one starts *)
NextInSequence(r, i) ==
    IF /\ ~cfg.handleMultipleUploadsTogether
       /\ cfg.uploadInSequence
       /\ i < Len(r.promo)
    THEN [r EXCEPT !.promo[i + 1] = "running", !.promoted = Append(@, i + 1)]
    ELSE r

(* a variant of PromotionsOver that goes on as soon as one promotion has   *)
(* settled                                                                 *)
PromotionsOver_AnySettled(r) ==
    IF \E i \in 1..Len(r.promo) : r.promo[i] \in {"ok", "failed"}
    THEN [r EXCEPT !.pc = "checkSecurity"] ELSE r

(* the promotions are over when every one of them has settled *)
PromotionsOver(r) ==
    IF AllSettled(r.promo, {"ok", "failed"}) THEN [r EXCEPT !.pc = "checkSecurity"] ELSE r

(* handleTheFile: runAfterUpload settles, and its rejection is pushed on   *)
(* failed                                                                  *)
HandleTheFile(b, i, ok) ==
    LET r == req[b]
        settled == IF ok THEN [r EXCEPT !.promo[i] = "ok"]
                   ELSE [r EXCEPT !.promo[i] = "failed",
                                  !.failed = Append(@, <<"runAfterUpload", i>>)]
    IN  /\ r.pc = "promote"
        /\ i \in 1..Len(r.promo)
        /\ r.promo[i] = "running"
        /\ Set(b, PromotionsOver(NextInSequence(settled, i)))
        /\ UNCHANGED <<store, uuid, faults, cfg, store0>>

(* a rollback that deletes every temporary object of the bucket *)
RollbackFilenames_AllTemporaries(r) == {k \in DOMAIN store : IsTmpKey(k)}

(* the temporary names the rollback deletes *)
RollbackFilenames(r) ==
    {r.attachmentsRcvd[i].tmpFileName : i \in 1..Len(r.attachmentsRcvd)}

(* a variant of ThrowFailure that throws the failed list when there is one *)
ThrowFailure_FailedFirst(r) ==
    IF r.failed # <<>> THEN Throw(r, 500, "failed") ELSE Throw(r, 403, "security")

(* what the handler throws after the rollback *)
ThrowFailure(r) ==
    IF r.securityError THEN Throw(r, 403, "security") ELSE Throw(r, 500, "failed")

(* a variant of Decide that rolls back only when security refused *)
Decide_SecurityOnly(r) ==
    LET files == WithFileFrom(r.body, 1)
    IN  IF r.securityError
        THEN IF RollbackFilenames(r) # {} THEN [r EXCEPT !.pc = "rollback"]
             ELSE ThrowFailure(r)
        ELSE IF files = <<>> THEN Respond(r)
        ELSE [r EXCEPT !.pc = "renames",
                       !.renames = [j \in 1..Len(files) |-> [d |-> files[j], st |-> "copy"]]]

(* the decision: rollback when something failed or security refused,       *)
(* otherwise the renames of the descriptors that have a file start         *)
Decide(r) ==
    LET files == WithFileFrom(r.body, 1)
    IN  IF r.failed # <<>> \/ r.securityError
        THEN IF RollbackFilenames(r) # {} THEN [r EXCEPT !.pc = "rollback"]
             ELSE ThrowFailure(r)
        ELSE IF files = <<>> THEN Respond(r)
        ELSE [r EXCEPT !.pc = "renames",
                       !.renames = [j \in 1..Len(files) |-> [d |-> files[j], st |-> "copy"]]]

(* a variant of CheckSecurity in which a refusal is thrown at once instead *)
(* of being kept in securityError                                          *)
CheckSecurity_ThrowsAtOnce(b, allowed) ==
    LET r == req[b]
    IN  /\ r.pc = "checkSecurity"
        /\ ~allowed => cfg.securityPlugin /\ r.body # <<>>
        /\ Set(b, IF allowed THEN Decide(r) ELSE Throw(r, 403, "security"))
        /\ UNCHANGED <<store, uuid, faults, cfg, store0>>

(* checkSecurity(tx, sriRequest, bodyJson, "create"): the plugin, when     *)
(* there is one and the manifest names a resource, allows or refuses       *)
CheckSecurity(b, allowed) ==
    LET r == req[b]
    IN  /\ r.pc = "checkSecurity"
        /\ ~allowed => cfg.securityPlugin /\ r.body # <<>>
        /\ Set(b, Decide([r EXCEPT !.securityError = ~allowed]))
        /\ UNCHANGED <<store, uuid, faults, cfg, store0>>

(* a variant of RollbackDelete in which the failure of the delete is the   *)
(* error of the batch                                                      *)
RollbackDelete_ThrowsDeleteFailure(b, failing) ==
    LET r == req[b]
    IN  /\ r.pc = "rollback"
        /\ failing => MayFail
        /\ faults' = IF failing THEN faults + 1 ELSE faults
        /\ store' = IF failing THEN store ELSE deleteFromS3(store, RollbackFilenames(r))
        /\ Set(b, IF failing THEN Throw(r, 500, "delete.failed") ELSE ThrowFailure(r))
        /\ UNCHANGED <<uuid, cfg, store0>>

(* the rollback: one deleteFromS3 of the temporary names, its failure only *)
(* logged; then the throw                                                  *)
RollbackDelete(b, failing) ==
    LET r == req[b]
    IN  /\ r.pc = "rollback"
        /\ failing => MayFail
        /\ faults' = IF failing THEN faults + 1 ELSE faults
        /\ store' = IF failing THEN store ELSE deleteFromS3(store, RollbackFilenames(r))
        /\ Set(b, ThrowFailure(r))
        /\ UNCHANGED <<uuid, cfg, store0>>

----------------------------------------------------------------------------
(* renameFile: copyFile to the permanent key, then deleteFromS3 of the     *)
(* temporary one                                                           *)

RenamesOver(r) ==
    IF r.pc = "renames" /\ \A j \in 1..Len(r.renames) : r.renames[j].st = "done"
    THEN Respond(r) ELSE r

RenameRejected(r, j) ==
    LET rejected == [r EXCEPT !.renames[j].st = "failed"]
    IN  IF r.pc = "renames" THEN Throw(rejected, 500, "rename.failed") ELSE rejected

RenameCopy(b, j) ==
    LET r == req[b]
        fileWithJson == r.body[r.renames[j].d]
        s3filename == getS3FileName(fileWithJson)
        tmpFileName == Val(fileWithJson.file).tmpFileName
    IN  /\ j \in 1..Len(r.renames)
        /\ r.renames[j].st = "copy"
        /\ \/ /\ Exists(tmpFileName)
              /\ store' = PutAt(store, s3filename,
                                copyFile(store, tmpFileName,
                                         Val(Val(fileWithJson.attachment).key)))
              /\ Set(b, [r EXCEPT !.renames[j].st = "delete",
                                  !.writes = @ \cup {s3filename},
                                  !.wrote = @ \cup {<<s3filename,
                                                      Val(Val(fileWithJson.attachment).key)>>}])
              /\ UNCHANGED faults
           \/ /\ Exists(tmpFileName) => MayFail
              /\ faults' = IF Exists(tmpFileName) THEN faults + 1 ELSE faults
              /\ Set(b, RenameRejected(r, j))
              /\ UNCHANGED store
        /\ UNCHANGED <<uuid, cfg, store0>>

(* a rename whose failed delete reverts the permanent keys the batch has   *)
(* written                                                                 *)
RenameDelete_RevertsOnFailure(b, j) ==
    LET r == req[b]
        tmpFileName == Val(r.body[r.renames[j].d].file).tmpFileName
    IN  /\ j \in 1..Len(r.renames)
        /\ r.renames[j].st = "delete"
        /\ \/ /\ store' = deleteFromS3(store, {tmpFileName})
              /\ Set(b, RenamesOver([r EXCEPT !.renames[j].st = "done"]))
              /\ UNCHANGED faults
           \/ /\ MayFail
              /\ faults' = faults + 1
              /\ Set(b, RenameRejected(r, j))
              /\ store' = deleteFromS3(store, {k \in r.writes : ~IsTmpKey(k)})
        /\ UNCHANGED <<uuid, cfg, store0>>

RenameDelete(b, j) ==
    LET r == req[b]
        tmpFileName == Val(r.body[r.renames[j].d].file).tmpFileName
    IN  /\ j \in 1..Len(r.renames)
        /\ r.renames[j].st = "delete"
        /\ \/ /\ store' = deleteFromS3(store, {tmpFileName})
              /\ Set(b, RenamesOver([r EXCEPT !.renames[j].st = "done"]))
              /\ UNCHANGED faults
           \/ /\ MayFail
              /\ faults' = faults + 1
              /\ Set(b, RenameRejected(r, j))
              /\ UNCHANGED store
        /\ UNCHANGED <<uuid, cfg, store0>>

----------------------------------------------------------------------------
(* The specification: one request, of either route, on a bucket that is   *)
(* empty or holds an earlier upload                                        *)

(* the steps of copyAttachments *)
CopyStep(b) ==
    \/ CopySecurity(b)
    \/ \E j \in 1..MaxDescs : CopyGetFileMeta(b, j)
    \/ CopyFilter(b)
    \/ \E j \in 1..MaxDescs : CopyFile(b, j)

(* the other steps of a handler *)
Step(b) ==
    \/ \E i \in 1..MaxFiles : UploadTmpFilePut(b, i)
    \/ \E i \in 1..MaxFiles : UploadTmpFileMeta(b, i)
    \/ BusBoyClose(b)
    \/ Validate(b)
    \/ CheckFileForBodyJson(b)
    \/ \E failing \in BOOLEAN : CheckExistence(b, failing)
    \/ \E i \in 1..MaxDescs, ok \in BOOLEAN : HandleTheFile(b, i, ok)
    \/ \E allowed \in BOOLEAN : CheckSecurity(b, allowed)
    \/ \E failing \in BOOLEAN : RollbackDelete(b, failing)
    \/ \E j \in 1..MaxDescs : RenameCopy(b, j)
    \/ \E j \in 1..MaxDescs : RenameDelete(b, j)

First == {b \in Requests : \A c \in Requests : b <= c}

Next ==
    \E b \in First :
        \/ streamingHandler(b)
        \/ \E filename \in RawNames : BusBoyFile(b, filename)
        \/ \E val \in Bodies : BusBoyField(b, val)
        \/ \E body \in {undefined} \cup {Some(v) : v \in Bodies} : handler(b, body)
        \/ CopyStep(b)
        \/ Step(b)

Spec == Init /\ [][Next]_vars

----------------------------------------------------------------------------
(* The second specification: uploads of the file a of w1 by several        *)
(* requests, one after the other or at the same time, on an empty bucket.   *)
(* Each request sends the file and then a manifest of one descriptor with   *)
(* the key k1 or k2.                                                        *)

InitTwo ==
    /\ store = << >>
    /\ store0 = store
    /\ uuid = 0
    /\ faults = 0
    /\ cfg \in {c \in Configs : c.getResourceForCopy}
    /\ req = [b \in Requests |-> InitReq]

NextTwo ==
    \E b \in Requests :
        \/ streamingHandler(b)
        \/ req[b].attachmentsRcvd = <<>> /\ BusBoyFile(b, <<"a">>)
        \/ \E k \in AttachmentKeys :
                /\ Len(req[b].attachmentsRcvd) = 1
                /\ BusBoyField(b, <<UploadDesc(<<"a">>, k)>>)
        \/ Step(b)

SpecTwo == InitTwo /\ [][NextTwo]_vars

----------------------------------------------------------------------------
(* The properties *)

(* the handler has returned a response *)
Succeeded(r) == r.pc = "done" /\ r.outcome.kind = "ok"

(* the handler has thrown an error with this code *)
Failed(r, codes) == r.pc = "done" /\ r.outcome.kind = "error" /\ r.outcome.code \in codes

(* the temporary keys the request wrote that are still in the bucket *)
TmpLeft(r) == {k \in r.writes : IsTmpKey(k) /\ k \in DOMAIN store}

(* the manifest as the client sent it *)
Manifest(r) == Val(r.fieldsRcvd)

(* no store call failed, no promotion failed, security did not refuse *)
NothingFailed(r) == faults = 0 /\ r.failed = <<>> /\ ~r.securityError

(* C1: for every batch that ends in success, no temporary key created      *)
(* during the batch is in the store once the handler has returned, for any *)
(* number of received files and descriptors, also when the names of        *)
(* several received files coincide.                                        *)
C1_NoTemporaryAfterSuccess ==
    \A b \in Requests : Succeeded(req[b]) => TmpLeft(req[b]) = {}

(* the handler went through the rollback branch: it threw the failed list  *)
(* or the error of the security check                                      *)
RolledBack(r) ==
    \/ Failed(r, {"failed"})
    \/ Failed(r, {"security"}) /\ r.securityError

(* C2: when the list of promotion failures is not empty or security        *)
(* refused, the rollback deletes every temporary key created in the batch, *)
(* those staged from uploaded bytes and those staged by a copy, in the     *)
(* upload route and in the copy route.  (No store call fails: the delete   *)
(* of the rollback is answered.)                                           *)
C2_RollbackDeletesEveryTemporary ==
    \A b \in Requests :
        RolledBack(req[b]) /\ faults = 0 => TmpLeft(req[b]) = {}

RejectionCodes ==
    {"missing.body", "missing.json.body.attachment", "missing.json.attachment.key",
     "missing.json.body.resource", "body.incomplete", "missing.file",
     "file.to.copy.not.found", "file.already.exists"}

(* C3: when a batch is rejected with a manifest error, a copy source error *)
(* or a conflict error after files were staged, every temporary object     *)
(* the batch staged is deleted.                                            *)
C3_RejectedBatchLeavesNoTemporary ==
    \A b \in Requests :
        Failed(req[b], RejectionCodes) => TmpLeft(req[b]) = {}

(* a promotion of the batch has failed *)
PromotionFailed(r) == \E i \in 1..Len(r.promo) : r.promo[i] = "failed"

(* C4: a batch in which at least one promotion fails writes no permanent   *)
(* key, at any time: every key it writes is a temporary key.               *)
C4_PromotionFailureWritesNoPermanentKey ==
    \A b \in Requests :
        PromotionFailed(req[b]) => \A k \in req[b].writes : IsTmpKey(k)

(* C4, its case: the batch is over, one promotion succeeded and another    *)
(* failed, and the batch had staged a file                                 *)
C4_Witness ==
    \E b \in Requests :
        /\ req[b].pc = "done"
        /\ \E i, j \in 1..Len(req[b].promo) :
                req[b].promo[i] = "failed" /\ req[b].promo[j] = "ok"
        /\ req[b].writes # {}

(* some descriptor of the manifest has no attachment block, or no resource *)
(* block                                                                   *)
LacksAttachment(r) ==
    IsDefined(r.fieldsRcvd)
    /\ \E i \in 1..Len(Manifest(r)) : ~IsDefined(Manifest(r)[i].attachment)

LacksResource(r) ==
    IsDefined(r.fieldsRcvd)
    /\ \E i \in 1..Len(Manifest(r)) : ~IsDefined(Manifest(r)[i].resource)

(* the temporary keys of the received files *)
ReceivedTmpKeys(r) == {r.attachmentsRcvd[i].tmpFileName : i \in 1..Len(r.attachmentsRcvd)}

(* the code of the first check of the manifest that fails: the attachment *)
(* blocks, then the attachment keys, then the resources                    *)
FirstValidationCode(r) ==
    IF LacksAttachment(r) THEN "missing.json.body.attachment"
    ELSE IF \E i \in 1..Len(Manifest(r)) : ~Truthy(Val(Manifest(r)[i].attachment).key)
    THEN "missing.json.attachment.key"
    ELSE "missing.json.body.resource"

ConflictAt(r, i) ==
    /\ cfg.checkFileExistence
    /\ r.exIdx >= 1
    /\ i \in 1..Len(r.body)
    /\ IsDefined(r.body[i].file)
    /\ getS3FileName(r.body[i]) \in DOMAIN store0
    /\ store0[getS3FileName(r.body[i])].Metadata.attachmentkey
            # Some(Val(Val(r.body[i].attachment).key))

(* C6: with checkFileExistence, if for some descriptor an object exists at *)
(* the permanent key with another attachment key, the batch fails with     *)
(* file.already.exists, no promotion has run, and the object is unchanged. *)
C6_ConflictFailsTheBatch ==
    \A b \in Requests : \A i \in 1..MaxDescs :
        ConflictAt(req[b], i)
        => /\ req[b].promoted = <<>>
           /\ getS3FileName(req[b].body[i]) \in DOMAIN store
           /\ store[getS3FileName(req[b].body[i])] = store0[getS3FileName(req[b].body[i])]
           /\ req[b].pc = "done" => Failed(req[b], {"file.already.exists"})

(* the attachment key of an object, when the key is permanent *)
Identity(s, k) == s[k].Metadata.attachmentkey

(* C7 as stated: with checkFileExistence, in every reachable state, also   *)
(* with two batches at the same time on the same resource and file name,   *)
(* an object at a permanent key with the attachment key A is never         *)
(* replaced by an object with another attachment key.                      *)
C7_IdentityNeverReplaced ==
    [][cfg.checkFileExistence
       => \A k \in DOMAIN store :
            (~IsTmpKey(k) /\ IsDefined(Identity(store, k)) /\ k \in DOMAIN store')
            => Identity(store', k) = Identity(store, k)]_vars

(* C7 amended: a batch whose existence check saw an object with the        *)
(* attachment key A at a permanent key never writes an object with another *)
(* attachment key at that key.  An object that appears at the key after    *)
(* the check, or whose head was not answered, is not protected.            *)
C7_SeenIdentityNeverReplaced ==
    \A b \in Requests :
        \A s \in req[b].seen : \A w \in req[b].wrote :
            s[1] = w[1] => s[2] = Some(w[2])

(* C7, its case: a batch saw an object at the permanent key and then wrote *)
(* that key, while another batch wrote it too                              *)
C7_Witness ==
    \E b, c \in Requests :
        /\ b # c
        /\ \E s \in req[b].seen : \E w \in req[b].wrote : s[1] = w[1]
        /\ req[c].wrote # {}

(* one received file a and a manifest of one descriptor, and nothing the   *)
(* request depends on failed                                               *)
CleanUpload(r) ==
    /\ r.pc = "done"
    /\ Len(r.attachmentsRcvd) = 1
    /\ IsDefined(r.fieldsRcvd)
    /\ r.failed = <<>>
    /\ ~r.securityError

(* b2 arrived after b1 had its response, and no other request arrived *)
InSuccession(b1, b2) ==
    /\ b1 # b2
    /\ req[b1].entry = "upload" /\ req[b1].after = {}
    /\ req[b2].entry = "upload" /\ req[b2].after = {b1}
    /\ \A c \in Requests \ {b1, b2} : req[c].pc = "idle"

(* the bucket holds the one object of the upload r, and nothing else *)
HoldsOnly(r) ==
    /\ DOMAIN store = {KeyW1A}
    /\ store[KeyW1A].Body = r.attachmentsRcvd[1].file
    /\ Identity(store, KeyW1A) = Val(Manifest(r)[1].attachment).key

(* C8: uploading the same descriptor twice in succession succeeds both     *)
(* times and leaves exactly one object at the permanent key, with the      *)
(* bytes of the second upload, and no temporary object, whether the        *)
(* existence check is on or off.  (No store call, promotion or security    *)
(* check fails.)                                                           *)
C8_UploadTwiceIsIdempotent ==
    \A b1, b2 \in Requests :
        (/\ InSuccession(b1, b2)
         /\ CleanUpload(req[b1]) /\ CleanUpload(req[b2])
         /\ req[b1].fieldsRcvd = req[b2].fieldsRcvd
         /\ faults = 0)
        => /\ Succeeded(req[b1])
           /\ Succeeded(req[b2])
           /\ HoldsOnly(req[b2])

(* C8, its case: both uploads are over and the second one has replaced the *)
(* object of the first                                                     *)
C8_Witness ==
    \E b1, b2 \in Requests :
        /\ InSuccession(b1, b2)
        /\ CleanUpload(req[b1]) /\ CleanUpload(req[b2])
        /\ req[b1].fieldsRcvd = req[b2].fieldsRcvd
        /\ cfg.checkFileExistence
        /\ faults = 0
        /\ Cardinality(req[b1].wrote) = 1
        /\ req[b2].seen # {}
        /\ HoldsOnly(req[b2])
        /\ store[KeyW1A].Body # req[b1].attachmentsRcvd[1].file

(* the scenario: the manifest is the one descriptor with the key k1, the   *)
(* resource /widgets/w1 and the file a; one file a is received;            *)
(* checkFileExistence; the bucket was empty; nothing failed                *)
Scenario(r) ==
    /\ r.pc = "done"
    /\ r.entry = "upload"
    /\ r.fieldsRcvd = Some(<<UploadDesc(<<"a">>, <<"k1">>)>>)
    /\ Len(r.attachmentsRcvd) = 1
    /\ r.attachmentsRcvd[1].originalFilename = <<"a">>
    /\ cfg.checkFileExistence
    /\ store0 = << >>
    /\ NothingFailed(r)

(* C9 as stated: in the scenario the batch succeeds and the store holds    *)
(* exactly one object, at the key w1-k1 (the derived key of the resource   *)
(* followed by the attachment key), and no temporary object.               *)
C9_OneObjectAtResourceAndAttachmentKey ==
    \A b \in Requests :
        Scenario(req[b])
        => /\ Succeeded(req[b])
           /\ DOMAIN store = {<<"w1">> \o <<"-">> \o <<"k1">>}

(* C9 amended: in the scenario the batch succeeds with the response        *)
(* /widgets/w1/attachments/k1 and the store holds exactly one object, at   *)
(* the key w1-a (the derived key of the resource followed by the file      *)
(* name), with the received bytes and the attachment key k1 as metadata,   *)
(* and no temporary object.                                                *)
C9_OneObjectAtResourceAndFilename ==
    \A b \in Requests :
        Scenario(req[b])
        => /\ Succeeded(req[b])
           /\ req[b].outcome.response =
                << [status |-> 200,
                    href |-> << <<>>, <<"widgets">>, <<"w1">>, <<"attachments">>, <<"k1">> >>] >>
           /\ DOMAIN store = {<<"w1">> \o <<"-">> \o <<"a">>}
           /\ store[<<"w1">> \o <<"-">> \o <<"a">>] =
                [Body |-> req[b].attachmentsRcvd[1].file,
                 Metadata |-> [attachmentkey |-> Some(<<"k1">>)]]

(* C9, its case: the scenario has run to its response *)
C9_Witness ==
    \E b \in Requests : Scenario(req[b]) /\ Succeeded(req[b]) /\ req[b].wrote # {}

(* the entry of the response for a descriptor *)
EntryOf(file) ==
    [status |-> 200,
     href |-> Val(Val(file.resource).href)
                \o << <<"attachments">>, Val(Val(file.attachment).key) >>]

(* the entries of the descriptors from i on, those of D left out *)
RECURSIVE EntriesWithout(_, _, _)
EntriesWithout(manifest, D, i) ==
    IF i > Len(manifest) THEN <<>>
    ELSE (IF i \in D THEN <<>> ELSE <<EntryOf(manifest[i])>>)
         \o EntriesWithout(manifest, D, i + 1)

(* the descriptors the copy route may drop: a copy source that may be      *)
(* missing                                                                 *)
Tolerant(r) ==
    IF r.entry = "copy"
    THEN {i \in 1..Len(Manifest(r)) :
            TruthyHref(Manifest(r)[i].fileHref) /\ Manifest(r)[i].ignoreNotFound}
    ELSE {}

(* C10 as stated: on success the response has exactly one entry per        *)
(* descriptor of the manifest, in manifest order, each with status 200 and *)
(* the href of the resource followed by /attachments/ and the attachment   *)
(* key.                                                                    *)
C10_OneEntryPerManifestDescriptor ==
    \A b \in Requests :
        Succeeded(req[b])
        => req[b].outcome.response = EntriesWithout(Manifest(req[b]), {}, 1)

(* C10 amended: on success the response has, in manifest order, one such   *)
(* entry per descriptor of the manifest, except that the copy route leaves *)
(* out descriptors whose copy source may be missing (ignoreNotFound); the  *)
(* upload route leaves out none.                                           *)
C10_OneEntryPerKeptDescriptor ==
    \A b \in Requests :
        Succeeded(req[b])
        => \E D \in SUBSET Tolerant(req[b]) :
                req[b].outcome.response = EntriesWithout(Manifest(req[b]), D, 1)

(* C10, its case: a batch of two descriptors with different hrefs has      *)
(* succeeded                                                               *)
C10_Witness ==
    \E b \in Requests :
        /\ Succeeded(req[b])
        /\ Len(req[b].outcome.response) = 2
        /\ req[b].outcome.response[1] # req[b].outcome.response[2]

----------------------------------------------------------------------------
(* The promotion policies *)

Sequential == ~cfg.handleMultipleUploadsTogether /\ cfg.uploadInSequence

Parallel == ~cfg.handleMultipleUploadsTogether /\ ~cfg.uploadInSequence

Grouped == cfg.handleMultipleUploadsTogether

(* the promotion has settled, with success or with a failure *)
Settled(st) == st \in {"ok", "failed"}

(* the failure of promotion i is in the failure list *)
InFailed(r, i) == \E k \in 1..Len(r.failed) : r.failed[k] = <<"runAfterUpload", i>>

(* the failure of promotion i is in the failure list exactly once *)
OnceInFailed(r, i) ==
    Cardinality({k \in 1..Len(r.failed) : r.failed[k] = <<"runAfterUpload", i>>}) = 1

(* C11: under the sequential policy the promotions are invoked one at a    *)
(* time in manifest order: promotion i+1 has started exactly when          *)
(* promotion i has settled, with success or with a failure; once the       *)
(* promotion phase is over every descriptor was promoted exactly once, and *)
(* every failed promotion is in the failure list.                          *)
C11_SequentialPromotionInManifestOrder ==
    \A b \in Requests :
        LET r == req[b]
            n == Len(r.promo)
        IN  Sequential /\ n > 0 =>
                /\ n = Len(r.body)
                /\ r.promoted = [i \in 1..Len(r.promoted) |-> i]
                /\ \A i \in 1..n : r.promo[i] # "idle" <=> i <= Len(r.promoted)
                /\ Cardinality({i \in 1..n : r.promo[i] = "running"}) <= 1
                /\ \A i \in 1..(n - 1) : r.promo[i + 1] # "idle" <=> Settled(r.promo[i])
                /\ r.pc # "promote" =>
                        /\ Len(r.promoted) = n
                        /\ \A i \in 1..n : Settled(r.promo[i])
                /\ \A i \in 1..n :
                        IF r.promo[i] = "failed" THEN OnceInFailed(r, i) ELSE ~InFailed(r, i)

(* C11, its case: the loop is over a manifest of two descriptors, the      *)
(* first promotion failed and the second one ran and succeeded             *)
C11_Witness ==
    \E b \in Requests :
        /\ Sequential
        /\ req[b].pc \notin {"promote", "checkSecurity"}
        /\ req[b].promo = <<"failed", "ok">>
        /\ req[b].promoted = <<1, 2>>

(* the handler is past the promotion phase: at the authorization check, in *)
(* the rollback or the commit, or over                                     *)
PastPromotions(r) == r.pc \in {"checkSecurity", "rollback", "renames", "done"}

(* C12: under the parallel policy a promotion is started for every         *)
(* descriptor, and the handler is at the authorization check or past it    *)
(* (rollback, commit, response) only when every promotion has settled,     *)
(* each failure being in the failure list.                                 *)
C12_ParallelPromotionsAllSettleFirst ==
    \A b \in Requests :
        LET r == req[b]
            n == Len(r.promo)
        IN  Parallel /\ n > 0 =>
                /\ n = Len(r.body)
                /\ \A i \in 1..n : r.promo[i] # "idle"
                /\ {r.promoted[k] : k \in 1..Len(r.promoted)} = 1..n
                /\ Len(r.promoted) = n
                /\ PastPromotions(r) => \A i \in 1..n : Settled(r.promo[i])
                /\ r.securityError => \A i \in 1..n : Settled(r.promo[i])
                /\ \A i \in 1..n :
                        IF r.promo[i] = "failed" THEN OnceInFailed(r, i) ELSE ~InFailed(r, i)

(* C12, its case: two promotions were running at the same time, the second *)
(* settled with a failure while the first was still running (seen in the   *)
(* failure list: the failure of 2 is the only one), and the handler is     *)
(* past the authorization check                                            *)
C12_Witness ==
    \E b \in Requests :
        /\ Parallel
        /\ req[b].pc \in {"rollback", "done"}
        /\ req[b].promo = <<"ok", "failed">>
        /\ req[b].failed = <<<<"runAfterUpload", 2>>>>

(* C13: under the grouped policy, whatever uploadInSequence is, a batch    *)
(* that reaches the promotion phase makes exactly one promotion call, with *)
(* the whole descriptor list (written 0 in promoted) as its argument, and  *)
(* the handler goes on only when that call has settled; when it fails, the *)
(* failure is in the failure list, no permanent key is written and the     *)
(* batch ends with an error.                                               *)
C13_GroupedPromotionIsOneCall ==
    \A b \in Requests :
        LET r == req[b]
        IN  Grouped =>
                /\ r.promo # <<>> \/ r.pc \in {"promote", "checkSecurity", "rollback", "renames"}
                        \/ Succeeded(r) =>
                        /\ Len(r.promo) = 1
                        /\ r.promoted = <<0>>
                        /\ r.pc # "promote" <=> Settled(r.promo[1])
                /\ r.promo # <<>> /\ r.promo[1] = "failed" =>
                        /\ OnceInFailed(r, 1)
                        /\ \A k \in r.writes : IsTmpKey(k)
                        /\ r.pc \notin {"renames"}
                        /\ r.pc = "done" => Failed(r, {"failed", "security"})

(* C13, its case: a manifest of two descriptors was handed to one call,    *)
(* the call failed and the batch ended with the failure list               *)
C13_Witness ==
    \E b \in Requests :
        /\ Grouped
        /\ Len(req[b].body) = 2
        /\ req[b].promo = <<"failed">>
        /\ Failed(req[b], {"failed"})

(* two promotion calls of the batch are running at the same time *)
Overlap(r) ==
    \E i, j \in 1..Len(r.promo) : i # j /\ r.promo[i] = "running" /\ r.promo[j] = "running"

(* a promotion call has started while an earlier descriptor of the         *)
(* manifest has not been promoted yet                                      *)
OutOfOrder(r) ==
    \E i, j \in 1..Len(r.promo) : i < j /\ r.promo[i] = "idle" /\ r.promo[j] # "idle"

(* a descriptor of the manifest waits for the promotion before it *)
Waiting(r) == \E i \in 1..Len(r.promo) : r.promo[i] = "idle"

BeforeCheckSecurity == {"checkFileForBodyJson", "checkExistence", "promote"}

AfterCheckSecurity == {"rollback", "renames", "done"}

(* the handler has taken the rollback branch *)
InRollback(r) == r.pc = "rollback" \/ Failed(r, {"failed", "security"})

(* the handler has taken the commit branch *)
InCommit(r) == r.pc = "renames" \/ Succeeded(r)

(* C15: in every batch that reaches the promotion phase the create         *)
(* authorization check is attempted exactly once: the handler comes to it  *)
(* when the promotion phase ends, whether or not a promotion failed, with  *)
(* every promotion settled, and never comes back to it; a refusal is       *)
(* recorded in securityError and nowhere else, and the step of the check   *)
(* is the one that decides: rollback when a failure is recorded or         *)
(* security refused, commit otherwise.                                     *)
C15_SecurityCheckedOnceAfterPromotions ==
    [][\A b \in Requests :
        LET r == req[b]
            r2 == req'[b]
        IN  /\ r.pc = "promote" /\ r2.pc # "promote" => r2.pc = "checkSecurity"
            /\ r.pc # "checkSecurity" /\ r2.pc = "checkSecurity" =>
                    /\ r.pc \in BeforeCheckSecurity
                    /\ ~r2.securityError
                    /\ \A i \in 1..Len(r2.promo) : Settled(r2.promo[i])
            /\ r.pc = "checkSecurity" /\ r2 # r =>
                    /\ r2.pc \in AfterCheckSecurity
                    /\ r2.promo = r.promo /\ r2.failed = r.failed
                    /\ IF r2.failed # <<>> \/ r2.securityError
                       THEN InRollback(r2) ELSE InCommit(r2)
                    /\ Failed(r2, {"security"}) => r2.securityError
            /\ r.pc \notin {"checkSecurity", "rollback"} /\ (r2.pc = "rollback" \/ r2.pc = "renames")
                    => r.pc = r2.pc
            /\ r2.securityError # r.securityError => r.pc = "checkSecurity"
       ]_vars

(* C15, its case: a promotion failed, the authorization check was made all *)
(* the same and refused, and the handler took the rollback branch          *)
C15_Witness ==
    \E b \in Requests :
        /\ InRollback(req[b])
        /\ req[b].securityError
        /\ \E i \in 1..Len(req[b].promo) : req[b].promo[i] = "failed"

(* the staging of received file i failed: its put or its meta was rejected *)
StagingFailed(r, i) == r.tmpUploads[i] = "settled" /\ ~IsDefined(r.attachmentsRcvd[i].hash)

(* every staging failure and every promotion failure is in the failed list *)
AllFailuresIn(r) ==
    /\ \A i \in 1..Len(r.promo) : r.promo[i] = "failed" => InFailed(r, i)
    /\ \A i \in 1..Len(r.tmpUploads) :
            StagingFailed(r, i) =>
                \E k \in 1..Len(r.failed) : r.failed[k] \in {<<"put", i>>, <<"meta", i>>}
    /\ Len(r.failed) = Cardinality({i \in 1..Len(r.promo) : r.promo[i] = "failed"})
                        + Cardinality({i \in 1..Len(r.tmpUploads) : StagingFailed(r, i)})

(* C16: the error the handler throws at the end of the rollback branch is  *)
(* the recorded security error whenever security refused, also when        *)
(* promotions failed as well; otherwise it is the failed list, which is    *)
(* not empty and holds every staging failure and every promotion failure.  *)
C16_RollbackThrowsSecurityErrorElseFailedList ==
    [][\A b \in Requests :
        LET r == req[b]
            r2 == req'[b]
        IN  r.pc \in {"checkSecurity", "rollback"} /\ r2.pc = "done" /\ r2.outcome.kind = "error" =>
                IF r2.securityError
                THEN r2.outcome.status = 403 /\ r2.outcome.code = "security"
                ELSE /\ r2.outcome.status = 500 /\ r2.outcome.code = "failed"
                     /\ r2.failed # <<>>
                     /\ AllFailuresIn(r2)
       ]_vars

(* C16, its case: a promotion failed and security refused, and the handler *)
(* has thrown the security error                                           *)
C16_Witness ==
    \E b \in Requests :
        /\ Failed(req[b], {"security"})
        /\ req[b].securityError
        /\ req[b].failed # <<>>

(* C17: when no security plugin is configured, or when the manifest names  *)
(* no resource, every authorization point is passed without a call and     *)
(* as allowed: no handler ends with an error of an authorization point     *)
(* (the refusal of the plugin, or the TypeError of a call on a plugin that *)
(* is not there), and no refusal is recorded; this includes the read check *)
(* of copyAttachments on the sources of the copy descriptors.              *)
C17_NoPluginOrNoResourceMeansAllowed ==
    \A b \in Requests :
        LET r == req[b]
        IN  ~cfg.securityPlugin \/ (IsDefined(r.fieldsRcvd) /\ Val(r.fieldsRcvd) = <<>>) =>
                /\ ~r.securityError
                /\ ~Failed(r, {"security", "TypeError"})

(* C18: the delete of the rollback is one step of the handler, whether the *)
(* store answers it or rejects it: after it the handler is over with the   *)
(* original error (the security error when security refused, else the      *)
(* failed list, both as they were before the delete), never with the       *)
(* failure of the delete; a rejected delete leaves the bucket as it was    *)
(* and is not made again: after the throw nothing of the batch runs.       *)
C18_RollbackDeleteFailureIsOnlyLogged ==
    [][\A b \in Requests :
        LET r == req[b]
            r2 == req'[b]
        IN  /\ r.pc = "rollback" /\ r2 # r =>
                /\ r2.pc = "done"
                /\ r2.outcome.kind = "error"
                /\ r2.outcome.code = (IF r.securityError THEN "security" ELSE "failed")
                /\ r2.failed = r.failed
                /\ r2.securityError = r.securityError
                /\ IF faults' # faults
                   THEN store' = store
                   ELSE store' = deleteFromS3(store, RollbackFilenames(r))
            /\ RolledBack(r) => r2 = r /\ store' = store
       ]_vars

(* C18, its case: the handler is over with the original error, and a       *)
(* temporary object of a received file is still in the bucket: the delete  *)
(* of the rollback was rejected                                            *)
C18_Witness ==
    \E b \in Requests :
        /\ RolledBack(req[b])
        /\ RollbackFilenames(req[b]) \cap DOMAIN store # {}

(* a copy descriptor whose source object is not in the bucket *)
SourceAbsent(d) ==
    /\ TruthyHref(d.fileHref)
    /\ getS3FileNameOfHref(Val(d.fileHref)) \notin DOMAIN store0

(* the descriptors of the manifest whose source is absent and that are     *)
(* marked ignoreNotFound, and those that are not marked                    *)
AbsentTolerated(r) ==
    {i \in 1..Len(Manifest(r)) : SourceAbsent(Manifest(r)[i]) /\ Manifest(r)[i].ignoreNotFound}

AbsentFatal(r) ==
    {i \in 1..Len(Manifest(r)) : SourceAbsent(Manifest(r)[i]) /\ ~Manifest(r)[i].ignoreNotFound}

(* the batch reaches copyAttachments and its read check allows: the        *)
(* manifest is valid, the route copies, there is a security plugin and it  *)
(* did not refuse                                                          *)
CopyAttempted(r) ==
    /\ r.entry # "none"
    /\ r.pc # "busBoy" /\ r.pc # "tmpUploads"
    /\ IsDefined(r.fieldsRcvd)
    /\ ManifestError(r) = ""
    /\ cfg.getResourceForCopy
    /\ cfg.securityPlugin
    /\ ~Failed(r, {"security"})

(* C19: in the upload route and in the copy route alike, for a copy        *)
(* descriptor whose source is absent from the store: when some such        *)
(* descriptor is not marked ignoreNotFound the batch fails with            *)
(* file.to.copy.not.found; when all of them are marked, they are dropped   *)
(* (as many promotions as descriptors kept, none for a dropped one; no     *)
(* finalization of a dropped one; no entry for it in the response) and the *)
(* rest of the batch proceeds: with no failure of the store, of a          *)
(* promotion or of security, and no conflict, the batch succeeds.          *)
C19_AbsentSourceDroppedOrFatal ==
    \A b \in Requests :
        LET r == req[b]
            kept == Len(Manifest(r)) - Cardinality(AbsentTolerated(r))
        IN  CopyAttempted(r) /\ faults = 0 =>
                /\ AbsentFatal(r) # {} /\ r.pc = "done" =>
                        Failed(r, {"file.to.copy.not.found"})
                /\ AbsentFatal(r) = {} /\ AbsentTolerated(r) # {} =>
                        /\ ~Grouped => Len(r.promo) <= kept
                        /\ Len(r.renames) <= kept
                        /\ (r.pc = "done" /\ NothingFailed(r)
                                /\ ~Failed(r, {"file.already.exists", "missing.file"})) =>
                                    (Succeeded(r) /\ Len(r.outcome.response) = kept)

(* the descriptors of the manifest that carry no copy source *)
WithoutFileHref(r) == {i \in 1..Len(Manifest(r)) : ~TruthyHref(Manifest(r)[i].fileHref)}

(* C20: in the copy route a manifest (every descriptor of which has its    *)
(* attachment block, its attachment key and its resource) that contains a  *)
(* descriptor without fileHref is rejected with the code                   *)
(* missing.json.fileHref, and nothing is staged, promoted or finalized:    *)
(* the batch writes no key, starts no promotion and no rename.             *)
C20_CopyRouteRequiresFileHref ==
    \A b \in Requests :
        LET r == req[b]
        IN  (/\ r.entry = "copy"
             /\ IsDefined(r.fieldsRcvd)
             /\ validateAndMessWithRequestData(Manifest(r)) = ""
             /\ WithoutFileHref(r) # {})
            =>  /\ r.writes = {}
                /\ r.promo = <<>>
                /\ r.renames = <<>>
                /\ r.pc = "done" => Failed(r, {"missing.json.fileHref"})

----------------------------------------------------------------------------
(* Matching of files and descriptors *)

(* the handler has read the manifest: the received files are all there *)
ManifestRead(r) ==
    /\ r.entry # "none"
    /\ r.pc \notin {"idle", "busBoy", "tmpUploads"}
    /\ IsDefined(r.fieldsRcvd)

(* the manifest passes validateAndMessWithRequestData *)
ValidManifest(r) == ManifestRead(r) /\ validateAndMessWithRequestData(Manifest(r)) = ""

(* the name a descriptor gives to its file, as the route reads it: the     *)
(* upload route normalizes it, the copy route does not                     *)
NameIn(r, d) == IF r.entry = "upload" THEN getSafeFilename(Val(d.file)) ELSE Val(d.file)

(* received file i is named by no descriptor of the manifest *)
Unnamed(r, i) ==
    \A j \in 1..Len(Manifest(r)) :
        ~(/\ Truthy(Manifest(r)[j].file)
          /\ NameIn(r, Manifest(r)[j]) = getSafeFilename(r.attachmentsRcvd[i].originalFilename))

(* descriptor j names a file that was not received, and has no copy source *)
NotReceived(r, j) ==
    LET d == Manifest(r)[j]
    IN  /\ IsDefined(d.file)
        /\ ~TruthyHref(d.fileHref)
        /\ \A i \in 1..Len(r.attachmentsRcvd) :
                getSafeFilename(r.attachmentsRcvd[i].originalFilename) # NameIn(r, d)

(* copyAttachments has thrown *)
CopyThrew(r) == Failed(r, {"security", "TypeError", "file.to.copy.not.found", "copy.failed"})

Sourceless(d) == ~IsDefined(d.file) /\ ~TruthyHref(d.fileHref)

(* the descriptor of the working manifest has a file object that is one of *)
(* the received files, or the staged copy of its copy source               *)
Resolved(r, d) ==
    /\ IsDefined(d.file)
    /\ IF TruthyHref(d.fileHref)
       THEN Val(d.file).tmpFileName \in r.writes
       ELSE \E i \in 1..Len(r.attachmentsRcvd) :
                r.attachmentsRcvd[i].tmpFileName = Val(d.file).tmpFileName

ManifestErrors ==
    {"missing.body", "missing.json.body.attachment", "missing.json.attachment.key",
     "missing.json.body.resource", "body.incomplete", "missing.file"}

(* C22: whenever a promotion has been started, every descriptor of the     *)
(* batch has a file name resolved to a received file or a copy source      *)
(* resolved to a staged copy; and a batch whose manifest holds a           *)
(* descriptor with neither starts no promotion and ends with a manifest    *)
(* error.                                                                  *)
C22_PromotedDescriptorsHaveASource ==
    \A b \in Requests :
        LET r == req[b]
        IN  /\ r.promo # <<>> => \A i \in 1..Len(r.body) : Resolved(r, r.body[i])
            /\ (ManifestRead(r) /\ \E j \in 1..Len(Manifest(r)) : Sourceless(Manifest(r)[j])) =>
                    /\ r.promo = <<>>
                    /\ r.pc = "done" => Failed(r, ManifestErrors)

----------------------------------------------------------------------------
(* The download route: customRouteForDownload, handleFileDownload,         *)
(* downloadFromS3                                                          *)

(* the key of params.key and a filename *)
RemoteFilename(key, filename) == key \o <<"-">> \o filename

(* what the catch block of downloadFromS3 throws for the error it caught:  *)
(* its first statement calls the caught error as a function, so whatever   *)
(* was caught (the error of the head, of the get, of the pipe, or the 404  *)
(* Error of the else branch) a TypeError leaves the block                  *)
downloadFromS3Catch(err) == "TypeError"

(* the catch block of handleFileDownload: the retry with the raw filename  *)
(* when the error is the number 404, status 404 when that was the retry or *)
(* the two names are equal, and download.failed for every other error      *)
handleFileDownloadCatch(r, err) ==
    IF err = "404"
    THEN IF r.isRetry \/ r.params.filename = getSafeFilename(r.params.filename)
         THEN Throw(r, 404, "")
         ELSE [r EXCEPT !.isRetry = TRUE, !.pc = "headFromS3"]
    ELSE Throw(r, 500, "download.failed")

(* the request arrives: GET /:key/attachments/:filename *)
downloadRequest(b, key, filename) ==
    /\ CanStart(b)
    /\ Set(b, [InitReq EXCEPT !.pc = "beforeStreamingHandler", !.entry = "download",
                              !.after = RespondedSet,
                              !.params = [key |-> key, filename |-> filename,
                                          attachmentKey |-> <<>>]])
    /\ UNCHANGED <<store, uuid, faults, cfg, store0>>

(* beforeStreamingHandler: checkSecurity(tx, sriRequest, null, "read") on  *)
(* the resource of the request; the plugin, when there is one, allows or   *)
(* refuses                                                                 *)
BeforeStreamingHandler(b, allowed) ==
    LET r == req[b]
    IN  /\ r.pc = "beforeStreamingHandler"
        /\ ~allowed => cfg.securityPlugin
        /\ Set(b, IF allowed THEN [r EXCEPT !.pc = "headFromS3"]
                  ELSE Throw(r, 403, "security"))
        /\ UNCHANGED <<store, uuid, faults, cfg, store0>>

(* the key handleFileDownload asks for: the safe name, the raw one on a    *)
(* retry                                                                   *)
DownloadKey(r) ==
    RemoteFilename(r.params.key,
                   IF r.isRetry THEN r.params.filename
                   ELSE getSafeFilename(r.params.filename))

(* downloadFromS3, the head of the key: the object is there, or the head   *)
(* rejects (not found, or a fault) and the catch block runs                *)
DownloadHead(b, failing) ==
    LET r == req[b]
        probed == [r EXCEPT !.probes = Append(@, DownloadKey(r))]
    IN  /\ r.pc = "headFromS3"
        /\ failing => Exists(DownloadKey(r)) /\ MayFail
        /\ faults' = IF failing THEN faults + 1 ELSE faults
        /\ IF Exists(DownloadKey(r)) /\ ~failing
           THEN Set(b, [probed EXCEPT !.pc = "getObject"])
           ELSE Set(b, handleFileDownloadCatch(probed, downloadFromS3Catch("NotFound")))
        /\ UNCHANGED <<store, uuid, cfg, store0>>

(* downloadFromS3, the GetObject and the pipe to the response (the stream  *)
(* of the library is taken to pipe): the body is streamed, or the get      *)
(* rejects (the object is gone, or a fault) and the catch block runs       *)
DownloadGet(b, failing) ==
    LET r == req[b]
    IN  /\ r.pc = "getObject"
        /\ failing => Exists(DownloadKey(r)) /\ MayFail
        /\ faults' = IF failing THEN faults + 1 ELSE faults
        /\ IF Exists(DownloadKey(r)) /\ ~failing
           THEN Set(b, [r EXCEPT !.pc = "done",
                                 !.outcome = [kind |-> "ok", status |-> 200, code |-> "",
                                              response |-> store[DownloadKey(r)].Body]])
           ELSE Set(b, handleFileDownloadCatch(r, downloadFromS3Catch("NoSuchKey")))
        /\ UNCHANGED <<store, uuid, cfg, store0>>

----------------------------------------------------------------------------
(* The delete route: customRouteForDelete, handleFileDelete                *)

(* the request arrives: DELETE /:key/attachments/:attachmentKey *)
deleteRequest(b, key, attachmentKey) ==
    /\ CanStart(b)
    /\ Set(b, [InitReq EXCEPT !.pc = "beforeHandler", !.entry = "delete",
                              !.after = RespondedSet,
                              !.params = [key |-> key, filename |-> <<>>,
                                          attachmentKey |-> attachmentKey]])
    /\ UNCHANGED <<store, uuid, faults, cfg, store0>>

(* beforeHandler: checkSecurity(tx, sriRequest, null, "delete") *)
BeforeHandler(b, allowed) ==
    LET r == req[b]
    IN  /\ r.pc = "beforeHandler"
        /\ ~allowed => cfg.securityPlugin
        /\ Set(b, IF allowed THEN [r EXCEPT !.pc = "handleFileDelete"]
                  ELSE Throw(r, 403, "security"))
        /\ UNCHANGED <<store, uuid, faults, cfg, store0>>

(* a handler whose store rejects the delete of a key it does not hold *)
DeleteHandler_AbsentKeyFails(b, filename, failing) ==
    LET r == req[b]
        remoteFilename == RemoteFilename(r.params.key, filename)
        named == [r EXCEPT !.params.filename = filename]
        absent == remoteFilename \notin DOMAIN store
    IN  /\ r.pc = "handleFileDelete"
        /\ failing => MayFail
        /\ faults' = IF failing THEN faults + 1 ELSE faults
        /\ store' = IF failing THEN store ELSE deleteFromS3(store, {remoteFilename})
        /\ Set(b, IF failing \/ absent THEN Throw(named, 500, "delete.failed")
                  ELSE [named EXCEPT !.pc = "done",
                                     !.outcome = [kind |-> "ok", status |-> 204, code |-> "",
                                                  response |-> <<>>]])
        /\ UNCHANGED <<uuid, cfg, store0>>

(* a handler that deletes every attachment of the resource *)
DeleteHandler_DeletesTheResource(b, filename, failing) ==
    LET r == req[b]
        named == [r EXCEPT !.params.filename = filename]
    IN  /\ r.pc = "handleFileDelete"
        /\ failing => MayFail
        /\ faults' = IF failing THEN faults + 1 ELSE faults
        /\ store' = IF failing THEN store
                    ELSE deleteFromS3(store, {k \in DOMAIN store :
                                                SubSeq(k, 1, Len(r.params.key)) = r.params.key})
        /\ Set(b, IF failing THEN Throw(named, 500, "delete.failed")
                  ELSE [named EXCEPT !.pc = "done",
                                     !.outcome = [kind |-> "ok", status |-> 204, code |-> "",
                                                  response |-> <<>>]])
        /\ UNCHANGED <<uuid, cfg, store0>>

(* the handler: getFileNameHandler of the application gives the filename   *)
(* of the attachment key, handleFileDelete deletes the key of params.key   *)
(* and that filename; 204, or delete.failed when the store rejects         *)
DeleteHandler(b, filename, failing) ==
    LET r == req[b]
        remoteFilename == RemoteFilename(r.params.key, filename)
        named == [r EXCEPT !.params.filename = filename]
    IN  /\ r.pc = "handleFileDelete"
        /\ failing => MayFail
        /\ faults' = IF failing THEN faults + 1 ELSE faults
        /\ store' = IF failing THEN store ELSE deleteFromS3(store, {remoteFilename})
        /\ Set(b, IF failing THEN Throw(named, 500, "delete.failed")
                  ELSE [named EXCEPT !.pc = "done",
                                     !.outcome = [kind |-> "ok", status |-> 204, code |-> "",
                                                  response |-> <<>>]])
        /\ UNCHANGED <<uuid, cfg, store0>>

----------------------------------------------------------------------------
(* The third specification: downloads and deletes, one after the other or  *)
(* at the same time, on a bucket that holds any of four objects: a legacy  *)
(* object of w1 stored under a raw name (space a), the object of w1 under  *)
(* the safe form of that name (_a), another attachment of w1 (ba), and an  *)
(* attachment of w2 (ba).                                                  *)

(* the route of the download: /:key/attachments/:filename where filename   *)
(* is any characters but a slash, then one character, then letters or      *)
(* digits                                                                  *)
MatchesDownloadRoute(filename) ==
    /\ Len(filename) >= 2
    /\ filename[Len(filename)] \in Letters \cup Digits
    /\ \A i \in 1..(Len(filename) - 2) : filename[i] # "/"

Filenames == {n \in { <<" ", "a">>, <<"_", "a">>, <<"b", "a">> } : MatchesDownloadRoute(n)}

ResourceKeys == { <<"w1">>, <<"w2">> }

StoredObject(tag, attachmentKey) ==
    [Body |-> <<"bytes", tag>>, Metadata |-> [attachmentkey |-> attachmentKey]]

AllObjects ==
    [k \in {RemoteFilename(<<"w1">>, <<" ", "a">>), RemoteFilename(<<"w1">>, <<"_", "a">>),
            RemoteFilename(<<"w1">>, <<"b", "a">>), RemoteFilename(<<"w2">>, <<"b", "a">>)} |->
        IF k = RemoteFilename(<<"w1">>, <<" ", "a">>) THEN StoredObject("legacy", undefined)
        ELSE IF k = RemoteFilename(<<"w1">>, <<"_", "a">>) THEN StoredObject("u1", Some(<<"k1">>))
        ELSE IF k = RemoteFilename(<<"w1">>, <<"b", "a">>) THEN StoredObject("u2", Some(<<"k2">>))
        ELSE StoredObject("u3", Some(<<"k1">>))]

AccessStores == {[k \in K |-> AllObjects[k]] : K \in SUBSET DOMAIN AllObjects}

InitThree ==
    /\ store \in AccessStores
    /\ store0 = store
    /\ uuid = 0
    /\ faults = 0
    /\ cfg \in {BaseConfig, [BaseConfig EXCEPT !.securityPlugin = FALSE]}
    /\ req = [b \in Requests |-> InitReq]

NextThree ==
    \E b \in Requests :
        \/ \E key \in ResourceKeys, filename \in Filenames : downloadRequest(b, key, filename)
        \/ \E allowed \in BOOLEAN : BeforeStreamingHandler(b, allowed)
        \/ \E failing \in BOOLEAN : DownloadHead(b, failing)
        \/ \E failing \in BOOLEAN : DownloadGet(b, failing)
        \/ \E key \in ResourceKeys, attachmentKey \in AttachmentKeys :
                deleteRequest(b, key, attachmentKey)
        \/ \E allowed \in BOOLEAN : BeforeHandler(b, allowed)
        \/ \E filename \in Filenames, failing \in BOOLEAN : DeleteHandler(b, filename, failing)

SpecThree == InitThree /\ [][NextThree]_vars

----------------------------------------------------------------------------
(* The properties of the download and delete routes *)

SafeKey(r) == RemoteFilename(r.params.key, getSafeFilename(r.params.filename))

RawKey(r) == RemoteFilename(r.params.key, r.params.filename)

(* the download has run to its end on an unchanging bucket: no request     *)
(* deletes, no store call failed, security did not refuse                  *)
QuietDownload(r) ==
    /\ r.entry = "download"
    /\ r.pc = "done"
    /\ ~Failed(r, {"security"})
    /\ faults = 0
    /\ \A c \in Requests : req[c].entry # "delete"

(* C23: when the object is stored only under the raw filename and the safe *)
(* name differs from it, the download probes the key of the safe name,     *)
(* misses, probes the key of the raw name, once, and streams the object.   *)
C23_DownloadFallsBackToRawName ==
    \A b \in Requests :
        LET r == req[b]
        IN  (/\ QuietDownload(r)
             /\ SafeKey(r) # RawKey(r)
             /\ RawKey(r) \in DOMAIN store0
             /\ SafeKey(r) \notin DOMAIN store0)
            => /\ r.probes = <<SafeKey(r), RawKey(r)>>
               /\ Succeeded(r)
               /\ r.outcome.response = store0[RawKey(r)].Body

(* C24: a download of a name with no object under the key of the safe name *)
(* nor under the key of the raw name ends with status 404, not with an     *)
(* internal error, after two probes when the two names differ (one when    *)
(* they are equal); and no download ever makes more than two probes.       *)
C24_DownloadOfAbsentNameIsNotFound ==
    \A b \in Requests :
        LET r == req[b]
        IN  /\ Len(r.probes) <= 2
            /\ (/\ QuietDownload(r)
                 /\ RawKey(r) \notin DOMAIN store0
                 /\ SafeKey(r) \notin DOMAIN store0)
                => /\ r.outcome.kind = "error"
                   /\ r.outcome.status = 404
                   /\ Len(r.probes) = (IF SafeKey(r) # RawKey(r) THEN 2 ELSE 1)

(* the key a delete request removes *)
DeleteKey(r) == RemoteFilename(r.params.key, r.params.filename)

(* the delete has run its handler *)
Deleted(r) == r.entry = "delete" /\ r.pc = "done" /\ ~Failed(r, {"security"})

(* every request that has arrived is a delete of this key that has run *)
OnlyDeletesOf(k) ==
    \A c \in Requests :
        req[c].pc # "idle" => Deleted(req[c]) /\ DeleteKey(req[c]) = k

(* C25: a delete that the store does not reject answers 204 whether or not *)
(* the key is in the bucket, and the bucket after one or two deletes of    *)
(* the same key is the initial bucket without that key                     *)
C25_DeleteIsIdempotent ==
    \A b \in Requests :
        LET r == req[b]
        IN  Deleted(r) =>
                /\ faults = 0 => Succeeded(r) /\ r.outcome.status = 204
                /\ Succeeded(r) => DeleteKey(r) \notin DOMAIN store
                /\ (faults = 0 /\ OnlyDeletesOf(DeleteKey(r)))
                    => store = deleteFromS3(store0, {DeleteKey(r)})

(* two deletes of one key, the first of which found the key in the bucket *)
C25_Witness ==
    /\ \A b \in Requests : Deleted(req[b]) /\ Succeeded(req[b])
    /\ \A b, c \in Requests : DeleteKey(req[b]) = DeleteKey(req[c])
    /\ DeleteKey(req[1]) \in DOMAIN store0
    /\ DeleteKey(req[1]) \notin DOMAIN store

(* the keys the deletes that succeeded have removed *)
DeletedKeys == {DeleteKey(req[b]) : b \in {c \in Requests : Deleted(req[c]) /\ Succeeded(req[c])}}

(* C26: a delete removes only the key of params.key and the filename of    *)
(* the attachment key: the bucket is always the initial bucket without the *)
(* keys of the deletes that succeeded, and a download of an object that no *)
(* request deletes still streams the bytes the object had                  *)
C26_DeleteRemovesOnlyItsKey ==
    /\ store = deleteFromS3(store0, DeletedKeys)
    /\ \A b \in Requests :
            LET r == req[b]
            IN  (/\ r.entry = "download"
                 /\ r.pc = "done"
                 /\ ~Failed(r, {"security"})
                 /\ faults = 0
                 /\ SafeKey(r) \in DOMAIN store0
                 /\ \A c \in Requests :
                        req[c].entry = "delete" => DeleteKey(req[c]) # SafeKey(r))
                => /\ Succeeded(r)
                   /\ r.outcome.response = store0[SafeKey(r)].Body

(* an attachment of a resource is deleted, then another attachment of the  *)
(* same resource is downloaded                                             *)
C26_Witness ==
    /\ Deleted(req[1]) /\ Succeeded(req[1])
    /\ DeleteKey(req[1]) \in DOMAIN store0
    /\ req[2].entry = "download" /\ Succeeded(req[2])
    /\ 1 \in req[2].after
    /\ req[2].params.key = req[1].params.key
    /\ SafeKey(req[2]) # DeleteKey(req[1])
    /\ Cardinality(DOMAIN store) = Cardinality(DOMAIN store0) - 1

----------------------------------------------------------------------------
(* The replacement of an attachment *)

(* the descriptor uploads a file of w1 under the attachment key of the     *)
(* earlier upload and under another file name                              *)
Replaces(r, d) ==
    /\ IsDefined(d.file)
    /\ Val(Val(d.attachment).key) = Val(EarlierUpload[KeyW1A].Metadata.attachmentkey)
    /\ Val(Val(d.resource).href) = HrefW1
    /\ <<"w1">> \o <<"-">> \o NameIn(r, d) # KeyW1A

(* C27: when an upload that reuses the attachment key of the earlier       *)
(* upload of w1 under a new file name has succeeded, the bucket holds no   *)
(* object at the key of the old file name                                  *)
C27_ReplacementRemovesThePreviousFile ==
    \A b \in Requests :
        LET r == req[b]
        IN  (/\ r.entry = "upload"
             /\ Succeeded(r)
             /\ ValidManifest(r)
             /\ store0 = EarlierUpload
             /\ \E i \in 1..Len(Manifest(r)) : Replaces(r, Manifest(r)[i]))
            => KeyW1A \notin DOMAIN store

----------------------------------------------------------------------------
(* The fourth specification: calls of getSafeFilename.  The function has   *)
(* no await, so a call and its recursive calls run to the end before the   *)
(* next call starts.  A request here is one call from the outside: req[b]  *)
(* keeps the file name it was given, the argument of the innermost call,   *)
(* the number of recursive calls made and the value returned.              *)

(* the length of the file names that are enumerated *)
MaxLen == 3

(* a percent sign, two hexadecimal digits, a letter that is also one, and  *)
(* a character outside the safe set                                        *)
NameChars == {"%", "2", "5", "a", " "}

(* longer names: an escaped percent sign in front of two digits, a UTF-8   *)
(* sequence of two octets, and one cut short                               *)
LongNames ==
    { <<"%", "2", "5", "4", "1">>,
      <<"%", "C", "3", "%", "A", "9">>,
      <<"%", "C", "3", "%", "%">> }

Names == SeqsUpTo(NameChars, MaxLen) \cup LongNames

(* a call that gives up at the second URIError *)
Decode_OneRetryOnly(b) ==
    LET r == req[b]
        decodedFilename == decodeURIComponent(r.arg)
    IN  /\ r.pc = "decode"
        /\ req' = [req EXCEPT ![b] =
                IF decodedFilename # <<"URIError">>
                THEN [r EXCEPT !.pc = "done", !.result = ReplaceUnsafe(decodedFilename)]
                ELSE IF r.retries >= 1 THEN [r EXCEPT !.pc = "threw"]
                ELSE [r EXCEPT !.arg = ReplaceFirstPercent(r.arg),
                               !.retries = r.retries + 1]]
        /\ UNCHANGED <<store, uuid, faults, cfg, store0>>

(* getSafeFilename(filename) is called: with an enumerated name, or with   *)
(* the value an earlier call returned                                      *)
Call(b, filename) ==
    /\ CanStart(b)
    /\ \A c \in Requests : c < b => req[c].pc \in {"done", "threw"}
    /\ req' = [req EXCEPT ![b] =
            [pc |-> "decode", entry |-> "getSafeFilename", filename |-> filename,
             arg |-> filename, retries |-> 0, result |-> <<>>]]
    /\ UNCHANGED <<store, uuid, faults, cfg, store0>>

(* the body of the innermost call: decode and replace, or on URIError the  *)
(* recursive call with the first percent sign replaced                     *)
Decode(b) ==
    LET r == req[b]
        decodedFilename == decodeURIComponent(r.arg)
    IN  /\ r.pc = "decode"
        /\ req' = [req EXCEPT ![b] =
                IF decodedFilename # <<"URIError">>
                THEN [r EXCEPT !.pc = "done", !.result = ReplaceUnsafe(decodedFilename)]
                ELSE [r EXCEPT !.arg = ReplaceFirstPercent(r.arg),
                               !.retries = r.retries + 1]]
        /\ UNCHANGED <<store, uuid, faults, cfg, store0>>

ReturnedNames == {req[c].result : c \in {d \in Requests : req[d].pc = "done"}}

InitFour ==
    /\ store = << >>
    /\ store0 = store
    /\ uuid = 0
    /\ faults = 0
    /\ cfg = BaseConfig
    /\ req = [b \in Requests |-> InitReq]

NextFour ==
    \E b \in Requests :
        \/ \E filename \in Names \cup ReturnedNames : Call(b, filename)
        \/ Decode(b)

SpecFour == InitFour /\ [][NextFour]_vars

----------------------------------------------------------------------------
(* The properties of getSafeFilename *)

CountPercent(s) == Cardinality({i \in 1..Len(s) : s[i] = "%"})

IsCall(r) == r.entry = "getSafeFilename"

(* C28: getSafeFilename returns for every file name, the empty one and     *)
(* those made of percent signs included: a call never throws and each      *)
(* recursive call has one percent sign less to go; and the value returned  *)
(* is returned unchanged when it is given to getSafeFilename again         *)
C28_NormalizerIsTotalAndIdempotent ==
    \A b \in Requests :
        LET r == req[b]
        IN  IsCall(r) =>
                /\ r.pc \in {"decode", "done"}
                /\ r.retries + CountPercent(r.arg) = CountPercent(r.filename)
                /\ r.pc = "done" =>
                        /\ r.result = getSafeFilename(r.filename)
                        /\ getSafeFilename(r.result) = r.result
                        /\ \A c \in Requests :
                                (/\ IsCall(req[c])
                                 /\ req[c].pc = "done"
                                 /\ req[c].filename = r.result)
                                => req[c].result = r.result

(* a name of percent signs is normalized, then its normal form is *)
C28_Witness ==
    /\ \A b \in Requests : IsCall(req[b]) /\ req[b].pc = "done"
    /\ req[1].filename = <<"%", "%", "%">>
    /\ req[2].filename = req[1].result
    /\ req[2].result = req[1].result

(* the name after n recursive calls: its first n percent signs replaced *)
RECURSIVE ReplacePercents(_, _)
ReplacePercents(s, n) == IF n = 0 THEN s ELSE ReplacePercents(ReplaceFirstPercent(s), n - 1)

(* C29 as stated: a call makes at most one recursive call, and the value   *)
(* returned after one is the decoded name, its first percent sign          *)
(* replaced, with every character outside the safe set replaced            *)
C29_AtMostOneRetry ==
    \A b \in Requests :
        LET r == req[b]
        IN  IsCall(r) =>
                /\ r.retries <= 1
                /\ (r.pc = "done" /\ r.retries = 1) =>
                        r.result = ReplaceUnsafe(decodeURIComponent(ReplaceFirstPercent(r.filename)))

(* C29 amended: each time the decoding fails the call replaces the first   *)
(* percent sign left and decodes again, once for every percent sign that   *)
(* still makes the decoding fail and so at most as often as the name has   *)
(* percent signs; it never throws, and the value returned is the decoded   *)
(* last argument with every character outside the safe set replaced        *)
C29_OneRetryPerMalformedPercent ==
    \A b \in Requests :
        LET r == req[b]
        IN  IsCall(r) =>
                /\ r.pc \in {"decode", "done"}
                /\ r.retries <= CountPercent(r.filename)
                /\ r.arg = ReplacePercents(r.filename, r.retries)
                /\ \A n \in 0..(r.retries - 1) :
                        decodeURIComponent(ReplacePercents(r.filename, n)) = <<"URIError">>
                /\ r.pc = "done" =>
                        /\ decodeURIComponent(r.arg) # <<"URIError">>
                        /\ r.result = ReplaceUnsafe(decodeURIComponent(r.arg))
                        /\ \A i \in 1..Len(r.result) : r.result[i] \in SafeChars

(* a name that takes two recursive calls *)
C29_Witness ==
    \E b \in Requests :
        /\ IsCall(req[b])
        /\ req[b].pc = "done"
        /\ req[b].retries = 2
        /\ req[b].filename = <<"%", "%">>
        /\ req[b].result = <<"_", "_">>

----------------------------------------------------------------------------
(* The fifth specification: an upload whose transport may abort while      *)
(* busBoy parses the request.  The handler registers the file and field    *)
(* events and awaits pEvent(busBoy, close), nothing else: what busBoy does *)
(* when its source is cut is decided outside this code, so each outcome is *)
(* possible: busBoy closes and the handler goes on with what was received, *)
(* busBoy emits an error and pEvent rejects, or busBoy emits nothing and   *)
(* the handler waits.  The abort cuts the request before its last part,    *)
(* the body field; the uploads that have started go on.                    *)

AbortOutcomes == {"close", "error", "nothing"}

TransportAbort(b, outcome) ==
    LET r == req[b]
        cut == [r EXCEPT !.aborted = TRUE]
    IN  /\ r.pc = "busBoy"
        /\ ~IsDefined(r.fieldsRcvd)
        /\ Set(b, IF outcome = "close" THEN [cut EXCEPT !.pc = "tmpUploads"]
                  ELSE IF outcome = "error" THEN Throw(cut, 500, "")
                  ELSE [cut EXCEPT !.pc = "pEvent"])
        /\ UNCHANGED <<store, uuid, faults, cfg, store0>>

InitFive ==
    /\ store \in InitStores
    /\ store0 = store
    /\ uuid = 0
    /\ faults = 0
    /\ cfg \in Configs
    /\ req = [b \in Requests |-> InitReq]

NextFive ==
    \E b \in First :
        \/ streamingHandler(b)
        \/ \E filename \in RawNames : BusBoyFile(b, filename)
        \/ \E val \in Bodies : BusBoyField(b, val)
        \/ \E outcome \in AbortOutcomes : TransportAbort(b, outcome)
        \/ CopyStep(b)
        \/ Step(b)

(* the event loop runs every callback that is ready *)
SpecFive == InitFive /\ [][NextFive]_vars /\ WF_vars(NextFive)

(* C30: when the transport aborts an upload, every temporary object the    *)
(* request has staged is deleted in the end                                *)
C30_AbortedUploadIsRolledBack ==
    \A b \in Requests :
        (req[b].aborted /\ TmpLeft(req[b]) # {}) ~> (TmpLeft(req[b]) = {})

----------------------------------------------------------------------------
(* The properties of staging *)

(* the staging of received file i was rejected and is recorded in failed *)
PutCollected(r, i) ==
    StagingFailed(r, i) =>
        \E k \in 1..Len(r.failed) : r.failed[k] \in {<<"put", i>>, <<"meta", i>>}

(* the copy to a temporary key of surviving copy descriptor j was rejected *)
CopyRejected(r, j) == r.copies[j].st = "failed"

(* C31: a staging failure is not fatal to the staging of the siblings:     *)
(* every put of a received file and every copy of a copy descriptor is     *)
(* attempted and awaited, and a failure is recorded in failed and not      *)
(* thrown: the handler reads the manifest only when every put has settled, *)
(* a rejected put is in failed, and a rejected copy does not make the      *)
(* handler throw but is in failed with every copy settled                  *)
C31_StagingFailuresAreCollected ==
    \A b \in Requests :
        LET r == req[b]
        IN  /\ IsDefined(r.fieldsRcvd) /\ r.entry = "upload"
                => /\ AllSettled(r.tmpUploads, {"settled"})
                   /\ \A i \in 1..Len(r.tmpUploads) : PutCollected(r, i)
            /\ \A j \in 1..Len(r.copies) :
                    (CopyRejected(r, j) /\ r.pc = "done")
                    => /\ ~Failed(r, {"copy.failed"})
                       /\ \E k \in 1..Len(r.failed) : r.failed[k] = <<"copy", j>>
                       /\ \A k \in 1..Len(r.copies) : r.copies[k].st # "pending"

(* the staging of a received file of the upload was rejected *)
StagingFailedIn(r) ==
    r.entry = "upload" /\ \E i \in 1..Len(r.tmpUploads) : StagingFailed(r, i)

(* every promotion has succeeded and security has allowed: the handler is  *)
(* past the decision                                                       *)
OnlyStagingFailed(r) ==
    /\ r.promo # <<>>
    /\ AllSettled(r.promo, {"ok"})
    /\ r.pc \notin {"promote", "checkSecurity"}
    /\ ~r.securityError

(* C32: a batch with a received file whose put or whose read of the meta   *)
(* after the put was rejected never commits: it writes no permanent key    *)
(* and never takes the commit branch; when every promotion succeeds and    *)
(* security allows it takes the rollback branch, and the failed list it    *)
(* throws holds the staging failure                                        *)
C32_StagingFailureMeansRollback ==
    \A b \in Requests :
        LET r == req[b]
        IN  StagingFailedIn(r) =>
                /\ \A k \in r.writes : IsTmpKey(k)
                /\ ~InCommit(r)
                /\ ~Failed(r, {"rename.failed"})
                /\ OnlyStagingFailed(r) => r.pc = "rollback" \/ Failed(r, {"failed"})
                /\ Failed(r, {"failed"}) =>
                        \A i \in 1..Len(r.tmpUploads) : PutCollected(r, i)

(* a staging failure is the only failure of a batch that has thrown *)
C32_Witness ==
    \E b \in Requests :
        /\ StagingFailedIn(req[b])
        /\ OnlyStagingFailed(req[b])
        /\ Failed(req[b], {"failed"})
        /\ Len(req[b].failed) = 1

(* runAfterUpload has been called for descriptor i: on its own, or with    *)
(* the whole list                                                          *)
Invoked(r, i) ==
    IF cfg.handleMultipleUploadsTogether THEN r.promo # <<>>
    ELSE i <= Len(r.promo) /\ r.promo[i] # "idle"

(* the bytes staged for a descriptor: those of the copy source, or those   *)
(* received                                                                *)
ContentOf(att) ==
    IF TruthyHref(att.fileHref) THEN store0[getS3FileNameOfHref(Val(att.fileHref))].Body
    ELSE Val(att.file).file

(* C33 as stated: whenever runAfterUpload is called for a descriptor that  *)
(* has a file, the hash and the size of the file are set and the staging   *)
(* of the file has written its temporary object                            *)
C33_PromotedFilesAreStaged ==
    \A b \in Requests :
        LET r == req[b]
        IN  \A i \in 1..Len(r.body) :
                (Invoked(r, i) /\ IsDefined(r.body[i].file))
                => /\ IsDefined(Val(r.body[i].file).hash)
                   /\ IsDefined(Val(r.body[i].file).size)
                   /\ Val(r.body[i].file).tmpFileName \in r.writes

(* C33 amended: when runAfterUpload is called for a descriptor that has a  *)
(* file, the hash and the size of the file are both set or both unset;     *)
(* when set they are the ETag and the ContentLength the store gave for the *)
(* staged bytes; runAfterUpload is called as well for a received file      *)
(* whose staging was rejected, with hash and size unset, and that batch    *)
(* never takes the commit branch                                           *)
C33_HashAndSizeFromTheStoreWhenStaged ==
    \A b \in Requests :
        LET r == req[b]
        IN  \A i \in 1..Len(r.body) :
                (Invoked(r, i) /\ IsDefined(r.body[i].file))
                => LET f == Val(r.body[i].file)
                   IN  /\ IsDefined(f.hash) <=> IsDefined(f.size)
                       /\ IsDefined(f.hash) =>
                            /\ f.hash = Some(<<"etag">> \o ContentOf(r.body[i]))
                            /\ f.size = Some(Len(ContentOf(r.body[i])))
                       /\ (~IsDefined(f.hash) /\ ~TruthyHref(r.body[i].fileHref)) =>
                            /\ StagingFailedIn(r)
                            /\ ~InCommit(r)

(* runAfterUpload was called for a file with its hash and for a file whose *)
(* staging was rejected                                                    *)
C33_Witness ==
    \E b \in Requests :
        \E i, j \in 1..Len(req[b].body) :
            /\ Invoked(req[b], i) /\ IsDefined(req[b].body[i].file)
            /\ Invoked(req[b], j) /\ IsDefined(req[b].body[j].file)
            /\ IsDefined(Val(req[b].body[i].file).hash)
            /\ ~IsDefined(Val(req[b].body[j].file).hash)
            /\ ~TruthyHref(req[b].body[j].fileHref)

----------------------------------------------------------------------------
(* The properties of the commit *)

(* the attachment key of a descriptor *)
KeyOf(att) == Val(Val(att.attachment).key)

(* the temporary object of a copy descriptor, while it is in the bucket,   *)
(* carries the attachment key of the descriptor                            *)
CopiesTagged(r) ==
    \A i \in 1..Len(r.body) :
        (/\ TruthyHref(r.body[i].fileHref)
         /\ IsDefined(r.body[i].file)
         /\ Val(r.body[i].file).tmpFileName \in DOMAIN store)
        => store[Val(r.body[i].file).tmpFileName].Metadata.attachmentkey
                = Some(KeyOf(r.body[i]))

(* C34: after a batch that succeeded the object at the permanent key of    *)
(* every descriptor that has a file carries the attachment key of that     *)
(* descriptor as its metadata, and a temporary object staged by a copy     *)
(* carries the attachment key of its descriptor as long as it exists       *)
C34_PermanentObjectsCarryTheAttachmentKey ==
    \A b \in Requests :
        LET r == req[b]
        IN  /\ CopiesTagged(r)
            /\ Succeeded(r) =>
                    \A i \in 1..Len(r.body) :
                        IsDefined(r.body[i].file) =>
                            /\ getS3FileName(r.body[i]) \in DOMAIN store
                            /\ store[getS3FileName(r.body[i])].Metadata.attachmentkey
                                    = Some(KeyOf(r.body[i]))

(* the permanent key and the temporary key of rename j *)
PermanentOf(r, j) == getS3FileName(r.body[r.renames[j].d])

TemporaryOf(r, j) == Val(r.body[r.renames[j].d].file).tmpFileName

(* no other rename of the batch moves the same temporary object or writes  *)
(* the same permanent key                                                  *)
Unshared(r, j) ==
    \A k \in 1..Len(r.renames) :
        k # j => /\ TemporaryOf(r, k) # TemporaryOf(r, j)
                 /\ PermanentOf(r, k) # PermanentOf(r, j)

(* C35: a rename is the copy of the temporary object to the permanent key  *)
(* and then the delete of the temporary key, the delete coming only after  *)
(* the copy was answered; once the renames have started there is no        *)
(* rollback: when a rename is rejected the renames that are done keep      *)
(* their objects at their permanent keys, and the temporary object of the  *)
(* rejected one is still in the bucket                                     *)
C35_RenameIsCopyThenDeleteWithoutRollback ==
    \A b \in Requests :
        LET r == req[b]
        IN  /\ r.renames # <<>> => r.pc \in {"renames", "done"} /\ ~RolledBack(r)
            /\ \A j \in 1..Len(r.renames) :
                    /\ r.renames[j].st \in {"delete", "done"}
                            => PermanentOf(r, j) \in r.writes
                    /\ r.renames[j].st = "done"
                            => /\ PermanentOf(r, j) \in DOMAIN store
                               /\ Unshared(r, j) => TemporaryOf(r, j) \notin DOMAIN store
                    /\ (/\ r.renames[j].st = "failed"
                         /\ TemporaryOf(r, j) \in r.writes
                         /\ Unshared(r, j))
                            => TemporaryOf(r, j) \in DOMAIN store

(* one rename of the batch is done and another was rejected *)
C35_Witness ==
    \E b \in Requests :
        \E j, k \in 1..Len(req[b].renames) :
            /\ Failed(req[b], {"rename.failed"})
            /\ req[b].renames[j].st = "done"
            /\ req[b].renames[k].st = "failed"
            /\ Unshared(req[b], k)
            /\ PermanentOf(req[b], j) \in DOMAIN store
            /\ TemporaryOf(req[b], k) \in DOMAIN store

(* a rename of the batch has not settled: its copy or its delete is still  *)
(* to be answered                                                          *)
RenameInFlight(r) == \E j \in 1..Len(r.renames) : r.renames[j].st \in {"copy", "delete"}

(* C36: when the handler has returned its list of 200 or has thrown in the *)
(* commit branch, every rename of the batch has settled                    *)
C36_NoRenameInFlightAfterTheResponse ==
    \A b \in Requests :
        req[b].pc = "done" /\ req[b].renames # <<>> => ~RenameInFlight(req[b])

----------------------------------------------------------------------------
(* The properties of concurrent batches *)

(* the temporary keys of a batch: those of its received files and those of *)
(* the file objects of its copy descriptors                                *)
OwnTemporaries(r) ==
    {r.attachmentsRcvd[i].tmpFileName : i \in 1..Len(r.attachmentsRcvd)}
    \cup {Val(r.body[i].file).tmpFileName :
            i \in {n \in 1..Len(r.body) :
                    TruthyHref(r.body[n].fileHref) /\ IsDefined(r.body[n].file)}}

(* the permanent keys of the descriptors of a batch *)
OwnPermanents(r) ==
    {getS3FileName(r.body[i]) : i \in {n \in 1..Len(r.body) : IsDefined(r.body[n].file)}}

(* the step changes what the bucket holds at the key *)
Changed(k) ==
    \/ (k \in DOMAIN store) # (k \in DOMAIN store')
    \/ k \in DOMAIN store /\ k \in DOMAIN store' /\ store[k] # store'[k]

(* C37: the temporary keys of two batches are disjoint, and a step of a    *)
(* batch changes in the bucket only temporary keys of that batch and       *)
(* permanent keys of its descriptors, which it writes and never deletes    *)
C37_BatchTouchesOnlyItsOwnKeys ==
    [][\A b \in Requests :
            req'[b] # req[b] =>
                /\ \A c \in Requests :
                        c # b => OwnTemporaries(req'[b]) \cap OwnTemporaries(req'[c]) = {}
                /\ \A k \in DOMAIN store \cup DOMAIN store' :
                        Changed(k) =>
                            IF IsTmpKey(k) THEN k \in OwnTemporaries(req'[b])
                            ELSE k \in OwnPermanents(req'[b]) /\ k \in DOMAIN store']_vars

(* two batches overlapped in time; one was rolled back, the other answered *)
(* 200, and each had staged a file                                         *)
C37_Witness ==
    \E b, c \in Requests :
        /\ b # c
        /\ RolledBack(req[b]) /\ Succeeded(req[c])
        /\ b \notin req[c].after /\ c \notin req[b].after
        /\ \E k \in req[b].writes : IsTmpKey(k)
        /\ \E k \in req[c].writes : IsTmpKey(k)

----------------------------------------------------------------------------
(* The read check of copyAttachments *)

(* the temporary keys of the copy descriptors *)
CopyTemporaries(r) ==
    {Val(r.body[i].file).tmpFileName :
        i \in {n \in 1..Len(r.body) :
                TruthyHref(r.body[n].fileHref) /\ IsDefined(r.body[n].file)}}

(* the read check has refused: the handler threw the error of the plugin   *)
(* without recording it                                                    *)
ReadRefused(r) == Failed(r, {"security"}) /\ ~r.securityError

(* C38: in a batch with copy descriptors the read check of the source      *)
(* resources comes before the head of any source and before any copy:      *)
(* while it is awaited no meta was asked for, no copy has started and no    *)
(* promotion has run; its refusal is thrown at once and is never kept for  *)
(* the decision, and after it no copy was staged and runAfterUpload was    *)
(* not called                                                              *)
C38_ReadCheckBeforeAnyCopy ==
    \A b \in Requests :
        LET r == req[b]
        IN  /\ (r.pc = "copySecurity" \/ ReadRefused(r))
                => /\ r.results = <<>>
                   /\ r.copies = <<>>
                   /\ r.promo = <<>>
                   /\ CopyTemporaries(r) \cap (r.writes \cup DOMAIN store) = {}
            /\ r.pc \in {"copyMeta", "copyFiles"} => cfg.securityPlugin /\ ~r.securityError
            /\ r.copies # <<>> => \A j \in 1..Len(r.results) : r.results[j].st # "pending"

(* the read check has refused a batch that has a copy descriptor *)
C38_Witness ==
    \E b \in Requests :
        /\ ReadRefused(req[b])
        /\ req[b].toCopy # <<>>
        /\ CopyTemporaries(req[b]) # {}

----------------------------------------------------------------------------
(* The sixth specification: one request, of either route, on a bucket that *)
(* holds w1-a either with the attachment key k1 or, put there by other     *)
(* means, without an attachment key.  HeadObject answers a Metadata object *)
(* for every object, empty when the object has no metadata.                *)

LegacyUpload ==
    [k \in {KeyW1A} |->
        [Body |-> <<"bytes", "u0">>, Metadata |-> [attachmentkey |-> undefined]]]

InitSix ==
    /\ store \in {EarlierUpload, LegacyUpload}
    /\ store0 = store
    /\ uuid = 0
    /\ faults = 0
    /\ cfg \in Configs
    /\ req = [b \in Requests |-> InitReq]

SpecSix == InitSix /\ [][Next]_vars

(* C39: the existence check throws file.already.exists only for a head     *)
(* that was answered and that carries an attachment key: a head that       *)
(* failed, for an absent object or for a fault of the store, counts as no  *)
(* object, and so does an object without an attachment key                 *)
C39_OnlyAnotherIdentityIsAConflict ==
    \A b \in Requests :
        Failed(req[b], {"file.already.exists"})
        => \E e \in req[b].seen : IsDefined(e[2])

----------------------------------------------------------------------------
(* The seventh specification: one request on the bucket that holds w1-a,   *)
(* with manifests whose descriptors can resolve to one permanent key from  *)
(* different contents: the received file a for w1, and the copy of         *)
(* /widgets/w1/attachments/a for w1.                                       *)

CopyOntoW1 ==
    [CopyDesc(<<"k1">>, FALSE) EXCEPT
        !.resource = Some([href |-> Some(HrefW1), key |-> undefined])]

DescsSeven ==
    {UploadDesc(f, <<"k1">>) : f \in RawNames} \cup {CopyOntoW1, CopyDesc(<<"k2">>, TRUE)}

BodiesSeven == SeqsUpTo(DescsSeven, MaxDescs)

InitSeven ==
    /\ store = EarlierUpload
    /\ store0 = store
    /\ uuid = 0
    /\ faults = 0
    /\ cfg \in Configs
    /\ req = [b \in Requests |-> InitReq]

NextSeven ==
    \E b \in First :
        \/ streamingHandler(b)
        \/ \E filename \in RawNames : BusBoyFile(b, filename)
        \/ \E val \in BodiesSeven : BusBoyField(b, val)
        \/ \E body \in {undefined} \cup {Some(v) : v \in BodiesSeven} : handler(b, body)
        \/ CopyStep(b)
        \/ Step(b)

SpecSeven == InitSeven /\ [][NextSeven]_vars

----------------------------------------------------------------------------
(* The content of the permanent objects of a batch that succeeded *)

(* the descriptors of the request that have a file *)
WithFile(r) == {i \in 1..Len(r.body) : IsDefined(r.body[i].file)}

(* the permanent key of the descriptor holds the content staged for it *)
HoldsStaged(r, i) ==
    /\ getS3FileName(r.body[i]) \in DOMAIN store
    /\ store[getS3FileName(r.body[i])].Body = ContentOf(r.body[i])

(* C40: when a batch reports success, every descriptor that has a file has *)
(* an object at its permanent key whose content is the content staged for  *)
(* that descriptor, whatever the order of the steps of the renames         *)
C40_SuccessMeansStagedContentAtPermanentKeys ==
    \A b \in Requests :
        Succeeded(req[b]) => \A i \in WithFile(req[b]) : HoldsStaged(req[b], i)

====
